---- MODULE Spec2Model ----
(***************************************************************************)
(* Verification model of the buffered I/O layer (libavformat/aviobuf.c)    *)
(* and of the unbuffered retry layer (libavformat/avio.c).                 *)
(*                                                                         *)
(* s  : one AVIOContext.  Pointers into s->buffer are byte offsets from    *)
(*      s->buffer.  The fields tpos, orc, log and the counters after them  *)
(*      are the state of the object behind s->opaque and the observations  *)
(*      made of the calls that reach it.                                   *)
(* rt : the locals of one retry_transfer_wrapper call and its environment. *)
(* url: the protocol registry, the URLContext handles and the process-wide *)
(*      network reference count.                                           *)
(* dyn: one DynBuffer, the sink of a dynamic-buffer AVIOContext.           *)
(***************************************************************************)
EXTENDS Integers, Sequences, FiniteSets, TLC

VARIABLES s, rt, url, dyn

vars == <<s, rt, url, dyn>>

(***************************************************************************)
(* Bounds.  IO_BUFFER_SIZE is 32768 and SHORT_SEEK_THRESHOLD is 4096 in    *)
(* the source; the model keeps their roles and scales their values.        *)
(***************************************************************************)
IO_BUFFER_SIZE == 2

SHORT_SEEK_THRESHOLD == 1

\* length of the object behind a read-mode stream
SrcLen == 4

\* largest positive count one read_packet call returns
MaxChunk == 2

\* number of bytes a caller writes to one write-mode stream
MaxWritten == 3

\* number of avio_seek calls a caller makes on one write-mode stream
MaxSeeks == 2

\* number of avio_seek calls a caller makes on one read-mode stream
MaxReadSeeks == 1

\* number of ffio_rewind_with_probe_data calls on one read-mode stream
MaxRewinds == 1

\* buffer sizes given to avio_alloc_context: the usual one and a larger one
BufferSizes == {IO_BUFFER_SIZE, IO_BUFFER_SIZE + 1}

\* largest size argument of avio_read / ffio_read_partial / avio_write: larger
\* than some buffers
MaxSize == IO_BUFFER_SIZE + 1

\* largest absolute seek target: beyond the end of the object
MaxOff == SrcLen + 1

(***************************************************************************)
(* Program constants.                                                      *)
(***************************************************************************)
AVERROR_EIO == -5

AVERROR_EINVAL == -22

AVERROR_EPIPE == -32

AVERROR_EOF == -541478725

SEEK_SET == 0

SEEK_CUR == 1

SEEK_END == 2

\* content of memory that no one has written
GARBAGE == -1

Min(a, b) == IF a < b THEN a ELSE b

Max(a, b) == IF a > b THEN a ELSE b

\* what the next callbacks return: nothing special, or one chosen result (or
\* two), the last of which is not the default d and the first of which is
\* not in E (the results after which no operation calls back again)
Scripts1(S, d) == {<<>>} \cup {<<v>> : v \in S \ {d}}

Scripts2(S, d, E) == Scripts1(S, d) \cup {<<u, v>> : u \in S \ E, v \in S \ {d}}

(***************************************************************************)
(* The object behind s->opaque.  orc holds the results its next callbacks  *)
(* return (chosen by the environment when an operation starts); once it is *)
(* used up every callback succeeds in full.                                *)
(***************************************************************************)
OrcHead(c) == IF c.orc = <<>> THEN MaxChunk ELSE Head(c.orc)

OrcTail(c) == IF c.orc = <<>> THEN <<>> ELSE Tail(c.orc)

\* byte of the source object at absolute offset i
SrcByte(i) == i

\* s->buffer[i]; a load beyond the allocation yields no defined value
Mem(c, i) == IF i >= 0 /\ i < Len(c.buffer) THEN c.buffer[i + 1] ELSE GARBAGE

\* the bytes [from, to) of s->buffer
Slice(c, from, to) == [k \in 1..(to - from) |-> Mem(c, from + k - 1)]

\* memcpy(s->buffer + at, data, Len(data)); a store beyond the allocation is
\* recorded in oob and leaves the buffer as it is
Store(c, at, data) ==
    [c EXCEPT !.buffer = [k \in 1..Len(c.buffer) |->
                             IF k - 1 >= at /\ k - 1 < at + Len(data)
                             THEN data[k - at] ELSE c.buffer[k]],
              !.oob = @ \/ (Len(data) > 0 /\ at + Len(data) > Len(c.buffer))]

Call(fn, data, off) == [fn |-> fn, data |-> data, off |-> off]

(***************************************************************************)
(* url_resetbuf and ffio_init_context                                      *)
(***************************************************************************)
url_resetbuf(c, write) ==
    IF write
    THEN [c EXCEPT !.buf_end = c.buffer_size, !.write_flag = TRUE]
    ELSE [c EXCEPT !.buf_end = 0, !.write_flag = FALSE]

ffio_init_context(buffer_size, write_flag, read_packet, write_packet, seek) ==
    LET c0 == [buffer |-> [k \in 1..buffer_size |-> GARBAGE],
               buffer_size |-> buffer_size,
               buf_ptr |-> 0,
               buf_end |-> 0,
               direct |-> FALSE,
               write_flag |-> FALSE,
               write_packet |-> write_packet,
               read_packet |-> read_packet,
               seek |-> seek,
               pos |-> 0,
               must_flush |-> FALSE,
               eof_reached |-> FALSE,
               error |-> 0,
               seekable |-> TRUE,
               max_packet_size |-> 0,
               update_checksum |-> FALSE,
               checksum |-> <<>>,
               checksum_ptr |-> 0,
               \* behind s->opaque
               src |-> [k \in 1..SrcLen |-> SrcByte(k - 1)],
               tpos |-> 0,
               orc |-> <<>>,
               log |-> <<>>,
               handed |-> 0,
               \* observations of the caller
               op |-> "init",
               ret |-> 0,
               out |-> <<>>,
               data |-> <<>>,
               r |-> 0,
               written |-> 0,
               consumed |-> 0,
               nseek |-> 0,
               nrewind |-> 0,
               oob |-> FALSE,
               eof_n |-> 0,
               eof_moved |-> FALSE,
               path |-> "",
               tell0 |-> 0,
               hist |-> "",
               \* the bytes the caller read or wrote since ffio_init_checksum
               summed |-> <<>>]
        c1 == url_resetbuf(c0, write_flag)
    IN  IF ~read_packet /\ ~write_flag
        THEN [c1 EXCEPT !.pos = buffer_size, !.buf_end = buffer_size,
                        !.buffer = [k \in 1..buffer_size |-> SrcByte(k - 1)]]
        ELSE c1

(***************************************************************************)
(* Write path                                                              *)
(***************************************************************************)
\* variant: pos counts only the bytes write_packet was called with
writeout_gated(c, data) ==
    LET len == Len(data)
        c1 == IF c.write_packet /\ c.error = 0
              THEN LET ret == OrcHead(c)
                   IN  [c EXCEPT !.orc = OrcTail(c),
                                 !.log = Append(@, Call("write_packet", data, c.tpos)),
                                 !.handed = @ + len,
                                 !.tpos = IF ret < 0 THEN @ ELSE @ + len,
                                 !.error = IF ret < 0 THEN ret ELSE @,
                                 !.pos = @ + len]
              ELSE c
    IN  c1

writeout(c, data) ==
    LET len == Len(data)
        c1 == IF c.write_packet /\ c.error = 0
              THEN LET ret == OrcHead(c)
                   IN  [c EXCEPT !.orc = OrcTail(c),
                                 !.log = Append(@, Call("write_packet", data, c.tpos)),
                                 !.handed = @ + len,
                                 !.tpos = IF ret < 0 THEN @ ELSE @ + len,
                                 !.error = IF ret < 0 THEN ret ELSE @]
              ELSE c
    IN  [c1 EXCEPT !.pos = @ + len]

\* s->update_checksum(s->checksum, s->checksum_ptr, to - s->checksum_ptr).
\* The function is the caller's; it folds the bytes into the accumulator one
\* by one, so the accumulator is kept as the seed followed by the bytes folded
\* in.  A negative length is an unsigned length beyond the buffer.
update_checksum(c, to) ==
    [c EXCEPT !.checksum = IF to >= c.checksum_ptr
                           THEN @ \o Slice(c, c.checksum_ptr, to)
                           ELSE @ \o <<GARBAGE>>]

\* variant: flush_buffer does not fold the flushed bytes in
flush_buffer_unsummed(c) ==
    LET c1 == IF c.buf_ptr > 0 THEN writeout(c, Slice(c, 0, c.buf_ptr)) ELSE c
    IN  [c1 EXCEPT !.buf_ptr = 0,
                   !.checksum_ptr = IF c.buf_ptr > 0 /\ c.update_checksum THEN 0 ELSE @]

flush_buffer(c) ==
    LET summed(c1) ==
            IF c1.update_checksum
            THEN [update_checksum(c1, c1.buf_ptr) EXCEPT !.checksum_ptr = 0]
            ELSE c1
        c2 == IF c.buf_ptr > 0 THEN summed(writeout(c, Slice(c, 0, c.buf_ptr))) ELSE c
    IN  [c2 EXCEPT !.buf_ptr = 0]

avio_w8(c, b) ==
    LET c1 == [Store(c, c.buf_ptr, <<b>>) EXCEPT !.buf_ptr = @ + 1]
    IN  IF c1.buf_ptr >= c1.buf_end THEN flush_buffer(c1) ELSE c1

\* variant: must_flush outlives avio_flush
avio_flush_sticky(c) == flush_buffer(c)

avio_flush(c) == [flush_buffer(c) EXCEPT !.must_flush = FALSE]

RECURSIVE avio_write_loop(_, _)
avio_write_loop(c, buf) ==
    IF Len(buf) = 0 THEN c
    ELSE LET len == Min(c.buf_end - c.buf_ptr, Len(buf))
             c1 == [Store(c, c.buf_ptr, SubSeq(buf, 1, len)) EXCEPT !.buf_ptr = @ + len]
             c2 == IF c1.buf_ptr >= c1.buf_end THEN flush_buffer(c1) ELSE c1
         IN  avio_write_loop(c2, SubSeq(buf, len + 1, Len(buf)))

avio_write(c, buf) ==
    IF c.direct /\ ~c.update_checksum
    THEN writeout(avio_flush(c), buf)
    ELSE avio_write_loop(c, buf)

(***************************************************************************)
(* Read path                                                               *)
(***************************************************************************)
\* s->read_packet(s->opaque, buf, len): the result is left in r, the bytes in
\* data.  The transport returns an error or 0 when the environment says so,
\* 0 at the end of the object, and otherwise between 1 and len bytes.
read_packet(c, len) ==
    LET want == OrcHead(c)
        n == IF want <= 0 THEN want ELSE Min(Min(want, len), Max(0, Len(c.src) - c.tpos))
    IN  [c EXCEPT !.orc = OrcTail(c),
                  !.r = n,
                  !.data = IF n > 0 THEN [k \in 1..n |-> c.src[c.tpos + k]] ELSE <<>>,
                  !.log = Append(@, Call("read_packet", <<>>, c.tpos)),
                  !.tpos = IF n > 0 THEN @ + n ELSE @]

ffio_set_buf_size(c, buf_size) ==
    url_resetbuf([c EXCEPT !.buffer = [k \in 1..buf_size |-> GARBAGE],
                           !.buffer_size = buf_size,
                           !.buf_ptr = 0],
                 c.write_flag)

\* what a failing read_packet must leave alone: the cursor, the end of the
\* valid data and the bytes in between
Window(c) == <<c.buf_ptr, c.buf_end, Slice(c, 0, c.buf_end)>>

\* variant: pos is not advanced by the bytes read
buffer_filled_stale(c, dst, len) ==
    [Store(c, dst, c.data) EXCEPT !.buf_ptr = dst,
                                 !.buf_end = dst + len]

\* a read_packet that returned len > 0 bytes (in data) for s->buffer + dst
buffer_filled(c, dst, len) ==
    [Store(c, dst, c.data) EXCEPT !.pos = @ + len,
                                 !.buf_ptr = dst,
                                 !.buf_end = dst + len]

fill_buffer(c) ==
    LET dst0 == IF c.max_packet_size = 0 /\ c.buf_end < c.buffer_size
                THEN c.buf_end ELSE 0
        len0 == c.buffer_size - dst0
        max_buffer_size == IF c.max_packet_size # 0 THEN c.max_packet_size
                           ELSE IO_BUFFER_SIZE
        \* after read_packet returned
        returned(c3, dst) ==
            LET len == c3.r
            IN  IF len <= 0
                THEN [c3 EXCEPT !.eof_reached = TRUE,
                                !.error = IF len < 0 THEN len ELSE @,
                                !.eof_n = @ + 1,
                                !.eof_moved = @ \/ Window(c3) # Window(c)]
                ELSE buffer_filled(c3, dst, len)
        \* after the buffer was made smaller, or left as it was
        sized(c2, shrink) ==
            LET dst == IF shrink THEN 0 ELSE dst0
                len1 == IF shrink THEN c2.buffer_size ELSE len0
            IN  returned(IF c2.read_packet THEN read_packet(c2, len1)
                         ELSE [c2 EXCEPT !.r = 0, !.data = <<>>], dst)
        \* after the check for a stream without read_packet
        \* the bytes up to buf_end are folded in when the buffer is refilled
        \* from its start
        summed(c1) ==
            IF c1.update_checksum /\ dst0 = 0
            THEN [(IF c1.buf_end > c1.checksum_ptr
                   THEN update_checksum(c1, c1.buf_end) ELSE c1)
                     EXCEPT !.checksum_ptr = 0]
            ELSE c1
        shrunk(c1) ==
            [ffio_set_buf_size(c1, max_buffer_size) EXCEPT !.checksum_ptr = 0]
        checked(c1) ==
            IF c1.eof_reached THEN c1
            ELSE LET shrink == c1.read_packet /\ c1.buffer_size > max_buffer_size
                 IN  sized(IF shrink THEN shrunk(summed(c1)) ELSE summed(c1), shrink)
    IN  checked(IF ~c.read_packet /\ c.buf_ptr >= c.buf_end
                THEN [c EXCEPT !.eof_reached = TRUE] ELSE c)

url_feof(c) ==
    LET c1 == IF c.eof_reached
              THEN fill_buffer([c EXCEPT !.eof_reached = FALSE]) ELSE c
    IN  [c1 EXCEPT !.r = IF c1.eof_reached THEN 1 ELSE 0]

\* the caller receives data
Deliver(c, data) ==
    [c EXCEPT !.out = @ \o data, !.consumed = @ + Len(data),
              !.summed = IF c.update_checksum THEN @ \o data ELSE @]

\* the accumulator a caller starts from
SEED == -7

\* ffio_init_checksum(s, update_checksum, checksum) with a function (armed)
\* or NULL
ffio_init_checksum(c, armed, checksum) ==
    IF armed
    THEN [c EXCEPT !.update_checksum = TRUE,
                   !.checksum = <<checksum>>,
                   !.checksum_ptr = c.buf_ptr,
                   !.summed = <<>>]
    ELSE [c EXCEPT !.update_checksum = FALSE]

\* ffio_get_checksum of a stream whose hook is armed; checksum is what it
\* returns
ffio_get_checksum(c) ==
    [update_checksum(c, c.buf_ptr) EXCEPT !.update_checksum = FALSE]

avio_r8(c) ==
    LET filled(c1) ==
            IF c1.buf_ptr < c1.buf_end
            THEN [Deliver(c1, <<Mem(c1, c1.buf_ptr)>>) EXCEPT
                      !.buf_ptr = @ + 1, !.ret = Mem(c1, c1.buf_ptr)]
            ELSE [c1 EXCEPT !.ret = 0]
    IN  filled(IF c.buf_ptr >= c.buf_end THEN fill_buffer(c) ELSE c)

\* the while loop of avio_read; size is what is still wanted
RECURSIVE avio_read_loop(_, _)
avio_read_loop(c, size) ==
    IF size <= 0 THEN [c EXCEPT !.r = size]
    ELSE LET len == Min(c.buf_end - c.buf_ptr, size)
         IN  IF len = 0
             THEN IF (c.direct \/ size > c.buffer_size) /\ ~c.update_checksum
                  THEN LET c1 == IF c.read_packet THEN read_packet(c, size)
                                 ELSE [c EXCEPT !.r = 0, !.data = <<>>]
                       IN  IF c1.r <= 0
                           THEN [c1 EXCEPT !.eof_reached = TRUE,
                                           !.error = IF c1.r < 0 THEN c1.r ELSE @,
                                           !.eof_n = @ + 1,
                                           !.eof_moved = @ \/ Window(c1) # Window(c),
                                           !.r = size]
                           ELSE avio_read_loop(
                                    [Deliver(c1, c1.data) EXCEPT
                                         !.pos = @ + c1.r,
                                         !.buf_ptr = 0,
                                         !.buf_end = 0],
                                    size - c1.r)
                  ELSE LET c1 == fill_buffer(c)
                       IN  IF c1.buf_end - c1.buf_ptr = 0
                           THEN [c1 EXCEPT !.r = size]
                           ELSE avio_read_loop(c1, size)
             ELSE avio_read_loop(
                      [Deliver(c, Slice(c, c.buf_ptr, c.buf_ptr + len)) EXCEPT
                           !.buf_ptr = @ + len],
                      size - len)

avio_read(c, size1) ==
    LET c1 == avio_read_loop(c, size1)
        size == c1.r
    IN  IF size1 = size
        THEN IF c1.error # 0 THEN [c1 EXCEPT !.ret = c1.error]
             ELSE LET c2 == url_feof(c1)
                  IN  IF c2.r # 0 THEN [c2 EXCEPT !.ret = AVERROR_EOF]
                      ELSE [c2 EXCEPT !.ret = size1 - size]
        ELSE [c1 EXCEPT !.ret = size1 - size]

\* a variant that reads on until size bytes are delivered
ffio_read_partial_eager(c, size) == avio_read(c, size)

ffio_read_partial(c, size) ==
    IF size < 0 THEN [c EXCEPT !.ret = -1]
    ELSE LET c1 == IF c.buf_end - c.buf_ptr = 0 THEN fill_buffer(c) ELSE c
             len == Min(c1.buf_end - c1.buf_ptr, size)
             c2 == [Deliver(c1, Slice(c1, c1.buf_ptr, c1.buf_ptr + len)) EXCEPT
                        !.buf_ptr = @ + len]
         IN  IF len = 0
             THEN IF c2.error # 0 THEN [c2 EXCEPT !.ret = c2.error]
                  ELSE LET c3 == url_feof(c2)
                       IN  IF c3.r # 0 THEN [c3 EXCEPT !.ret = AVERROR_EOF]
                           ELSE [c3 EXCEPT !.ret = len]
             ELSE [c2 EXCEPT !.ret = len]

(***************************************************************************)
(* ffio_rewind_with_probe_data: buf is the caller's probe buffer, an       *)
(* allocation of exactly Len(buf) bytes.                                   *)
(***************************************************************************)
ffio_rewind_with_probe_data(c, buf) ==
    IF c.write_flag THEN [c EXCEPT !.ret = AVERROR_EINVAL]
    ELSE
    LET buf_size0 == Len(buf)
        buffer_size == c.buf_end
        buffer_start == c.pos - buffer_size
    IN  IF buffer_start > buf_size0 THEN [c EXCEPT !.ret = AVERROR_EINVAL]
        ELSE
        LET overlap == buf_size0 - buffer_start
            new_size == buf_size0 + buffer_size - overlap
            alloc_size == Max(c.buffer_size, new_size)
            \* av_realloc_f keeps the probe bytes; the rest is not initialised
            grown == IF alloc_size > buf_size0
                     THEN [k \in 1..alloc_size |->
                              IF k <= buf_size0 THEN buf[k] ELSE GARBAGE]
                     ELSE buf
            copied == IF new_size > buf_size0
                      THEN [k \in 1..Len(grown) |->
                               IF k > buf_size0 /\ k <= new_size
                               THEN Mem(c, overlap + (k - buf_size0) - 1)
                               ELSE grown[k]]
                      ELSE grown
            buf_size == IF new_size > buf_size0 THEN new_size ELSE buf_size0
        IN  [c EXCEPT !.buffer = copied,
                      !.buf_ptr = 0,
                      !.buffer_size = alloc_size,
                      !.pos = buf_size,
                      !.buf_end = buf_size,
                      !.eof_reached = FALSE,
                      !.must_flush = FALSE,
                      !.ret = 0]

(***************************************************************************)
(* Seek                                                                    *)
(***************************************************************************)
\* s->seek(s->opaque, offset, SEEK_SET): the new position, or an error when the
\* environment says so or the offset is negative
seek_packet(c, offset) ==
    LET want == OrcHead(c)
        res == IF offset < 0 THEN AVERROR_EINVAL
               ELSE IF want < 0 THEN want ELSE offset
    IN  [c EXCEPT !.orc = OrcTail(c),
                  !.r = res,
                  !.log = Append(@, Call("seek", <<>>, offset)),
                  !.tpos = IF res < 0 THEN @ ELSE offset]

\* while(s->pos < offset && !s->eof_reached) fill_buffer(s);
RECURSIVE seek_fill_loop(_, _)
seek_fill_loop(c, offset) ==
    IF c.pos < offset /\ ~c.eof_reached
    THEN seek_fill_loop(fill_buffer(c), offset)
    ELSE c

\* variant: the in-buffer branch is taken on direct streams too
seek_in_buffer_direct(c, offset1) ==
    /\ ~c.must_flush
    /\ offset1 >= 0
    /\ offset1 <= c.buf_end

\* the test of the in-buffer branch
seek_in_buffer(c, offset1) ==
    /\ ~c.must_flush
    /\ ~c.direct \/ ~c.seek
    /\ offset1 >= 0
    /\ offset1 <= c.buf_end

\* variant: only targets already buffered are reached by reading
seek_by_reading_strict(c, offset1, whence, force) ==
    /\ offset1 <= c.buf_end
    /\ ~c.write_flag
    /\ offset1 >= 0
    /\ ~c.direct \/ ~c.seek
    /\ whence # SEEK_END \/ force

\* the test of the branch that skips forward by reading
seek_by_reading(c, offset1, whence, force) ==
    /\ ~c.seekable \/ offset1 <= c.buf_end + SHORT_SEEK_THRESHOLD
    /\ ~c.write_flag
    /\ offset1 >= 0
    /\ ~c.direct \/ ~c.seek
    /\ whence # SEEK_END \/ force

\* the branch that skips forward by reading
seek_skip(c, offset) ==
    LET c1 == seek_fill_loop([c EXCEPT !.path = "skip"], offset)
    IN  IF c1.eof_reached
        THEN [c1 EXCEPT !.ret = AVERROR_EOF]
        ELSE [c1 EXCEPT !.buf_ptr = c1.buf_end + offset - c1.pos,
                        !.eof_reached = FALSE,
                        !.ret = offset]

\* variant: the pending bytes are flushed after the transport seek
seek_delegate_unflushed(c, offset) ==
    LET c0 == [c EXCEPT !.path = "delegate"]
        c1 == IF c0.write_flag THEN [c0 EXCEPT !.must_flush = TRUE] ELSE c0
    IN  IF ~c1.seek
        THEN [c1 EXCEPT !.ret = AVERROR_EPIPE]
        ELSE LET c2 == seek_packet(c1, offset)
                 c3 == IF c2.write_flag THEN flush_buffer(c2) ELSE c2
             IN  IF c2.r < 0
                 THEN [c3 EXCEPT !.ret = c2.r]
                 ELSE [c3 EXCEPT !.buf_end = IF c2.write_flag THEN @ ELSE 0,
                                 !.buf_ptr = 0,
                                 !.pos = offset,
                                 !.eof_reached = FALSE,
                                 !.ret = offset]

\* variant: a successful transport seek leaves eof_reached as it was
seek_delegate_keep_eof(c, offset) ==
    LET c0 == [c EXCEPT !.path = "delegate"]
        c1 == IF c0.write_flag
              THEN [flush_buffer(c0) EXCEPT !.must_flush = TRUE]
              ELSE c0
    IN  IF ~c1.seek
        THEN [c1 EXCEPT !.ret = AVERROR_EPIPE]
        ELSE LET c2 == seek_packet(c1, offset)
             IN  IF c2.r < 0
                 THEN [c2 EXCEPT !.ret = c2.r]
                 ELSE [c2 EXCEPT !.buf_end = IF c2.write_flag THEN @ ELSE 0,
                                 !.buf_ptr = 0,
                                 !.pos = offset,
                                 !.ret = offset]

\* the branch that hands the seek to the transport
seek_delegate(c, offset) ==
    LET c0 == [c EXCEPT !.path = "delegate"]
        c1 == IF c0.write_flag
              THEN [flush_buffer(c0) EXCEPT !.must_flush = TRUE]
              ELSE c0
    IN  IF ~c1.seek
        THEN [c1 EXCEPT !.ret = AVERROR_EPIPE]
        ELSE LET c2 == seek_packet(c1, offset)
             IN  IF c2.r < 0
                 THEN [c2 EXCEPT !.ret = c2.r]
                 ELSE [c2 EXCEPT !.buf_end = IF c2.write_flag THEN @ ELSE 0,
                                 !.buf_ptr = 0,
                                 !.pos = offset,
                                 !.eof_reached = FALSE,
                                 !.ret = offset]

\* variant: a whence that is not SEEK_CUR is treated as SEEK_SET
avio_seek_any_whence(c, offset0, whence, force) ==
    LET pos == c.pos - (IF c.write_flag THEN 0 ELSE c.buf_end)
    IN  IF whence = SEEK_CUR /\ offset0 = 0
        THEN [c EXCEPT !.ret = pos + c.buf_ptr]
        ELSE
        LET offset == IF whence = SEEK_CUR THEN offset0 + pos + c.buf_ptr ELSE offset0
            offset1 == offset - pos
        IN  IF seek_in_buffer(c, offset1)
            THEN [c EXCEPT !.buf_ptr = offset1,
                           !.eof_reached = FALSE,
                           !.path = "inbuf",
                           !.ret = offset]
            ELSE IF seek_by_reading(c, offset1, whence, force)
            THEN seek_skip(c, offset)
            ELSE seek_delegate(c, offset)

avio_seek(c, offset0, whence, force) ==
    LET pos == c.pos - (IF c.write_flag THEN 0 ELSE c.buf_end)
    IN  IF whence # SEEK_CUR /\ whence # SEEK_SET
        THEN [c EXCEPT !.ret = AVERROR_EINVAL]
        ELSE IF whence = SEEK_CUR /\ offset0 = 0
        THEN [c EXCEPT !.ret = pos + c.buf_ptr]
        ELSE
        LET offset == IF whence = SEEK_CUR THEN offset0 + pos + c.buf_ptr ELSE offset0
            offset1 == offset - pos
        IN  IF seek_in_buffer(c, offset1)
            THEN \* can do the seek inside the buffer
                 [c EXCEPT !.buf_ptr = offset1,
                           !.eof_reached = FALSE,
                           !.path = "inbuf",
                           !.ret = offset]
            ELSE IF seek_by_reading(c, offset1, whence, force)
            THEN seek_skip(c, offset)
            ELSE seek_delegate(c, offset)

\* avio_seek(s, 0, SEEK_CUR): the offset the stream reports
avio_tell(c) == avio_seek(c, 0, SEEK_CUR, FALSE).ret

(***************************************************************************)
(* One call of a public operation.  The environment fixes what the next    *)
(* callbacks return.  While the call runs the record holds everything it   *)
(* did (log, out, ret, tell0, eof_n); between calls the stream keeps the   *)
(* name of the last operation, the branch avio_seek took, the names of the *)
(* callbacks it invoked and whether a failing read_packet moved the        *)
(* buffered window (eof_moved).                                            *)
(***************************************************************************)
Enter(c, op, orc) ==
    [c EXCEPT !.op = op, !.orc = orc, !.log = <<>>, !.out = <<>>, !.path = "",
              !.ret = 0, !.eof_n = 0, !.eof_moved = FALSE, !.tell0 = avio_tell(c)]

\* the names of the callbacks in a log
Names(log) == [k \in 1..Len(log) |-> log[k].fn]

\* the byte counts are kept for as long as the caller has not sought
Leave(c) ==
    [c EXCEPT !.orc = <<>>, !.r = 0, !.data = <<>>, !.tell0 = 0, !.out = <<>>,
              !.ret = 0, !.eof_n = 0,
              !.log = Names(c.log),
              !.handed = IF c.nseek = 0 THEN @ ELSE 0,
              !.consumed = IF c.nseek = 0 THEN @ ELSE 0]

\* results a write_packet or seek callback may be told to return
WriteResults == {AVERROR_EIO, 0}

WriteScripts1 == Scripts1(WriteResults, 0)

WriteScripts2 == Scripts2(WriteResults, 0, {})

\* results a read_packet callback may be told to return (0 and errors at any
\* time, or a cap on the number of bytes)
ReadResults == {AVERROR_EIO, 0} \cup (1..MaxChunk)

ReadScripts1 == Scripts1(ReadResults, MaxChunk)

ReadScripts2 == Scripts2(ReadResults, MaxChunk, {AVERROR_EIO})

\* a read of at most one byte calls back a second time only from url_feof
ReadScriptsFor(n) ==
    IF n < 0 THEN {<<>>}
    ELSE IF n <= 1 THEN ReadScripts1 \cup {<<0, v>> : v \in ReadResults \ {MaxChunk}}
    ELSE ReadScripts2

NoRetry == [on |-> FALSE]

\* no protocol registry or handle is in use
NoUrl == [on |-> FALSE]

\* no dynamic buffer is in use
NoDyn == [on |-> FALSE]

\* the byte a caller writes for absolute offset i of the output
OutByte(i) == i + 1

\* the n bytes a caller writes next: those of the offsets the stream reports
NextBytes(c, n) == [k \in 1..n |-> OutByte(avio_tell(c) + k - 1)]

\* the sizes callers pass: nothing, one byte, more than some buffers hold
Sizes == {0, 1, MaxSize}

SeekArgs ==
    {<<off, SEEK_SET, FALSE>> : off \in 0..MaxOff}
    \cup {<<off, SEEK_CUR, FALSE>> : off \in {-1, 0, 1, SHORT_SEEK_THRESHOLD + 1}}
    \cup {<<0, SEEK_END, f>> : f \in BOOLEAN}

SeekScripts(c) == IF c.write_flag THEN WriteScripts2 ELSE ReadScripts2

\* the operations as a caller invokes them
\* hist tells what a write-mode stream went through since the last avio_flush:
\* "" no delegated seek, "sought" a delegated seek and no write after it,
\* "wrote" a write after a delegated seek
DoW8(c, orc) ==
    [avio_w8(Enter(c, "avio_w8", orc), NextBytes(c, 1)[1])
        EXCEPT !.written = @ + 1,
               !.summed = IF c.update_checksum THEN @ \o NextBytes(c, 1) ELSE @,
               !.hist = IF @ = "" THEN "" ELSE "wrote"]

DoWrite(c, n, orc) ==
    [avio_write(Enter(c, "avio_write", orc), NextBytes(c, n))
        EXCEPT !.written = @ + n,
               !.summed = IF c.update_checksum THEN @ \o NextBytes(c, n) ELSE @,
               \* on a direct stream avio_write calls avio_flush
               !.hist = IF c.direct /\ ~c.update_checksum THEN ""
                        ELSE IF @ = "" \/ n = 0 THEN @ ELSE "wrote"]

DoFlush(c, orc) == [avio_flush(Enter(c, "avio_flush", orc)) EXCEPT !.hist = ""]

DoSeek(c, a, orc) ==
    LET sought(c1) ==
            [c1 EXCEPT !.nseek = @ + 1,
                       !.hist = IF c1.write_flag /\ c1.path = "delegate"
                                THEN "sought" ELSE @]
    IN  sought(avio_seek(Enter(c, "avio_seek", orc), a[1], a[2], a[3]))

DoR8(c, orc) == avio_r8(Enter(c, "avio_r8", orc))

DoRead(c, n, orc) == avio_read(Enter(c, "avio_read", orc), n)

DoReadPartial(c, n, orc) == ffio_read_partial(Enter(c, "ffio_read_partial", orc), n)

\* the probe buffer of a caller that kept the first n bytes of the object
Probe(n) == [k \in 1..n |-> SrcByte(k - 1)]

DoRewind(c, n) ==
    [ffio_rewind_with_probe_data(Enter(c, "ffio_rewind_with_probe_data", <<>>), Probe(n))
        EXCEPT !.nseek = @ + 1, !.nrewind = @ + 1]

\* the seeks a caller makes: a bounded number, to targets up to MaxOff
CanSeek(c, a) ==
    /\ c.nseek < (IF c.write_flag THEN MaxSeeks ELSE MaxReadSeeks)
    /\ a[2] = SEEK_CUR => avio_tell(c) + a[1] \in 0..MaxOff

(***************************************************************************)
(* Write-mode stream                                                       *)
(***************************************************************************)
InitWrite ==
    /\ \E size \in BufferSizes, sk \in BOOLEAN, direct \in BOOLEAN :
          s = [ffio_init_context(size, TRUE, FALSE, TRUE, sk) EXCEPT !.direct = direct]
    /\ rt = NoRetry /\ url = NoUrl /\ dyn = NoDyn

W8 ==
    /\ s.written < MaxWritten
    /\ \E orc \in WriteScripts1 : s' = Leave(DoW8(s, orc))
    /\ UNCHANGED <<rt, url, dyn>>

Write ==
    /\ \E n \in Sizes \ {0}, orc \in WriteScripts2 :
          /\ s.written + n <= MaxWritten
          /\ s' = Leave(DoWrite(s, n, orc))
    /\ UNCHANGED <<rt, url, dyn>>

Flush ==
    /\ \E orc \in WriteScripts1 : s' = Leave(DoFlush(s, orc))
    /\ UNCHANGED <<rt, url, dyn>>

Seek ==
    /\ \E a \in SeekArgs, orc \in SeekScripts(s) :
          /\ CanSeek(s, a)
          /\ s' = Leave(DoSeek(s, a, orc))
    /\ UNCHANGED <<rt, url, dyn>>

NextWrite == W8 \/ Write \/ Flush \/ Seek

SpecWrite == InitWrite /\ [][NextWrite]_vars

(***************************************************************************)
(* Read-mode stream                                                        *)
(***************************************************************************)
\* <<read_packet, seek, direct, seekable, max_packet_size>> as ffio_fdopen and
\* callers of avio_alloc_context set them
ReadConfigs ==
    {<<TRUE, TRUE, FALSE, TRUE, 0>>, <<TRUE, TRUE, FALSE, FALSE, 0>>,
     <<TRUE, TRUE, TRUE, TRUE, 0>>, <<TRUE, TRUE, TRUE, FALSE, 0>>,
     <<TRUE, FALSE, FALSE, TRUE, 0>>, <<TRUE, FALSE, TRUE, FALSE, 0>>,
     <<TRUE, TRUE, FALSE, FALSE, IO_BUFFER_SIZE>>,
     <<FALSE, FALSE, FALSE, TRUE, 0>>}

InitRead ==
    /\ \E size \in BufferSizes, cf \in ReadConfigs :
          s = [ffio_init_context(size, FALSE, cf[1], FALSE, cf[2])
                  EXCEPT !.direct = cf[3], !.seekable = cf[4],
                         !.max_packet_size = cf[5]]
    /\ rt = NoRetry /\ url = NoUrl /\ dyn = NoDyn

R8 ==
    /\ \E orc \in ReadScripts1 : s' = Leave(DoR8(s, orc))
    /\ UNCHANGED <<rt, url, dyn>>

Read ==
    /\ \E n \in Sizes : \E orc \in ReadScriptsFor(n) : s' = Leave(DoRead(s, n, orc))
    /\ UNCHANGED <<rt, url, dyn>>

ReadPartial ==
    /\ \E n \in Sizes \cup {-1} : \E orc \in ReadScriptsFor(Min(n, 1)) :
          s' = Leave(DoReadPartial(s, n, orc))
    /\ UNCHANGED <<rt, url, dyn>>

\* the caller has read the first n bytes and hands them back
Rewind ==
    /\ s.nrewind < MaxRewinds
    /\ s.nseek = 0
    /\ \E n \in 1..SrcLen :
          /\ n <= s.consumed
          /\ s' = Leave(DoRewind(s, n))
    /\ UNCHANGED <<rt, url, dyn>>

NextRead == R8 \/ Read \/ ReadPartial \/ Seek \/ Rewind

SpecRead == InitRead /\ [][NextRead]_vars

(***************************************************************************)
(* A stream whose caller opens and closes checksum windows.  While a       *)
(* window is open the caller reads (or writes and flushes); it does not    *)
(* seek.                                                                   *)
(***************************************************************************)
InitSum == InitRead \/ InitWrite

\* the accumulator is followed for as long as it holds at most MaxFolded bytes
MaxFolded == 6

Folding == Len(s.checksum) <= MaxFolded

SumInit ==
    /\ ~s.update_checksum
    /\ s' = Leave(ffio_init_checksum(Enter(s, "ffio_init_checksum", <<>>), TRUE, SEED))
    /\ UNCHANGED <<rt, url, dyn>>

SumGet ==
    /\ s.update_checksum
    /\ s' = Leave(ffio_get_checksum(Enter(s, "ffio_get_checksum", <<>>)))
    /\ UNCHANGED <<rt, url, dyn>>

SumR8 == ~s.write_flag /\ Folding /\ R8

SumRead == ~s.write_flag /\ Folding /\ Read

SumReadPartial == ~s.write_flag /\ Folding /\ ReadPartial

SumW8 == s.write_flag /\ W8

SumWrite == s.write_flag /\ Write

SumFlush == s.write_flag /\ Flush

NextSum ==
    \/ SumInit \/ SumGet
    \/ SumR8 \/ SumRead \/ SumReadPartial
    \/ SumW8 \/ SumWrite \/ SumFlush

SpecSum == InitSum /\ [][NextSum]_vars

(***************************************************************************)
(* The retry layer (avio.c).  rt holds the URLContext fields the wrapper   *)
(* reads (flags, rw_timeout, max_packet_size, interrupt_callback), the     *)
(* locals of retry_transfer_wrapper (len, fast_retries, wait_since, ret),  *)
(* the clock av_gettime reads, and what was observed of the call.  One     *)
(* clock tick is the 1000 microseconds of av_usleep(1000).                 *)
(***************************************************************************)
\* largest poll index from which the interrupt callback answers non-zero
MaxK == 7

\* largest rw_timeout, in ticks
MaxTimeout == 2

\* transfer invocations observed within one call
MaxIter == 10

\* largest size a caller passes
MaxLen == 2

\* ticks one transfer invocation may take
MaxDelay == 1

MaxNow == 1 + MaxIter * (MaxDelay + 1)

AVERROR_EINTR == -4

AVERROR_EAGAIN == -11

AVERROR_EXIT == -1414092869

\* int fast_retries = 5
FAST_RETRIES == 5

\* the stream is not used while the retry layer is exercised
Parked == ffio_init_context(IO_BUFFER_SIZE, FALSE, FALSE, FALSE, FALSE)

\* a handle before any call: k = 0 is no interrupt callback, k > 0 a callback
\* whose k-th poll is the first to answer non-zero
URLContext(flag_read, flag_write, nonblock, rw_timeout, max_packet_size, k) ==
    [on |-> TRUE, pc |-> "idle", fn |-> "",
     flag_read |-> flag_read, flag_write |-> flag_write, nonblock |-> nonblock,
     rw_timeout |-> rw_timeout, max_packet_size |-> max_packet_size, k |-> k,
     size |-> 0, size_min |-> 0, len |-> 0, fast_retries |-> 0,
     wait_since |-> 0, ret |-> 0, result |-> 0, now |-> 1,
     transfers |-> 0, polls |-> 0, sleeps |-> 0, cb |-> FALSE,
     polled |-> FALSE, unpolled |-> 0, last |-> "none", run |-> 0,
     slow |-> 0, first_slow |-> 0, slow_at |-> 0, fed |-> FALSE]

Return(r, v) == [r EXCEPT !.pc = "done", !.result = v]

\* variant: the callback's answer is dropped
ff_check_interrupt_deaf(r) ==
    IF r.k # 0
    THEN [r EXCEPT !.polls = @ + 1, !.polled = TRUE, !.cb = FALSE]
    ELSE [r EXCEPT !.cb = FALSE]

\* cb && cb->callback && (ret = cb->callback(cb->opaque))
ff_check_interrupt(r) ==
    IF r.k # 0
    THEN [r EXCEPT !.polls = @ + 1, !.polled = TRUE, !.cb = (r.polls + 1 >= r.k)]
    ELSE [r EXCEPT !.cb = FALSE]

\* variant: a successful transfer disarms the deadline
progress_rearm(r, ret) ==
    LET r1 == [r EXCEPT !.ret = ret,
                        !.fast_retries = IF ret # 0 THEN Max(@, 2) ELSE @,
                        !.wait_since = IF ret # 0 THEN 0 ELSE @,
                        !.len = @ + ret]
        r2 == IF r1.len < r1.size THEN ff_check_interrupt(r1)
              ELSE [r1 EXCEPT !.cb = FALSE]
    IN  IF r2.cb THEN Return(r2, AVERROR_EXIT)
        ELSE IF r2.len < r2.size_min THEN r2
        ELSE Return(r2, r2.len)

\* lines 434-441: replenish, account, poll, and the loop condition
progress(r, ret) ==
    LET r1 == [r EXCEPT !.ret = ret,
                        !.fast_retries = IF ret # 0 THEN Max(@, 2) ELSE @,
                        !.len = @ + ret]
        r2 == IF r1.len < r1.size THEN ff_check_interrupt(r1)
              ELSE [r1 EXCEPT !.cb = FALSE]
    IN  IF r2.cb THEN Return(r2, AVERROR_EXIT)
        ELSE IF r2.len < r2.size_min THEN r2
        ELSE Return(r2, r2.len)

\* variant: a fast retry does not spend the budget
would_block_eager(r, t) ==
    IF r.fast_retries # 0
    THEN progress([r EXCEPT !.last = "would_block_fast",
                            !.run = IF r.sleeps = 0 THEN Min(@ + 1, 6) ELSE @], 0)
    ELSE progress([r EXCEPT !.last = "would_block_slow",
                            !.sleeps = Min(@ + 1, 2),
                            !.now = @ + 1], 0)

\* lines 412-430: the transfer returned AVERROR(EAGAIN) at clock reading t
would_block(r, t) ==
    IF r.fast_retries # 0
    THEN progress([r EXCEPT !.fast_retries = @ - 1,
                            !.last = "would_block_fast",
                            !.run = IF r.sleeps = 0 THEN @ + 1 ELSE @], 0)
    ELSE
    LET r1 == [r EXCEPT !.last = "would_block_slow",
                        !.slow = Min(@ + 1, 2),
                        !.first_slow = IF r.slow = 0 THEN t ELSE @,
                        !.slow_at = t]
    IN  IF r.rw_timeout # 0 /\ r.wait_since # 0 /\ t > r.wait_since + r.rw_timeout
        THEN Return([r1 EXCEPT !.ret = 0], AVERROR_EIO)
        ELSE progress([r1 EXCEPT !.wait_since = IF r.rw_timeout # 0 /\ @ = 0
                                                THEN t ELSE @,
                                 !.sleeps = Min(@ + 1, 2),
                                 !.now = @ + 1], 0)

\* one pass of the while loop: the transfer takes d ticks and returns res
retry_iteration(r, res, d) ==
    LET t == r.now + d
        r1 == [r EXCEPT !.now = t,
                        !.ret = res,
                        !.transfers = @ + 1,
                        !.unpolled = IF r.transfers > 0 /\ ~r.polled
                                     THEN Min(@ + 1, 1) ELSE @,
                        !.polled = FALSE]
    IN  IF res = AVERROR_EINTR THEN [r1 EXCEPT !.last = "interrupted"]
        ELSE IF r.nonblock THEN Return([r1 EXCEPT !.last = "nonblock"], res)
        ELSE IF res = AVERROR_EAGAIN THEN would_block(r1, t)
        ELSE IF res < 1
        THEN Return([r1 EXCEPT !.last = IF res < 0 THEN "error" ELSE "end"],
                    IF res < 0 THEN res ELSE r.len)
        ELSE progress([r1 EXCEPT !.last = "progress",
                                 !.run = IF r.sleeps = 0 THEN 0 ELSE @,
                                 !.fed = @ \/ r.wait_since # 0], res)

retry_transfer_wrapper(r, size, size_min) ==
    LET r1 == [r EXCEPT !.size = size, !.size_min = size_min, !.len = 0,
                        !.fast_retries = FAST_RETRIES, !.wait_since = 0,
                        !.pc = "loop"]
    IN  IF r1.len < size_min THEN r1 ELSE Return(r1, r1.len)

ffurl_read(r, size) ==
    IF ~r.flag_read THEN Return([r EXCEPT !.fn = "ffurl_read"], AVERROR_EIO)
    ELSE retry_transfer_wrapper([r EXCEPT !.fn = "ffurl_read"], size, 1)

ffurl_read_complete(r, size) ==
    IF ~r.flag_read THEN Return([r EXCEPT !.fn = "ffurl_read_complete"], AVERROR_EIO)
    ELSE retry_transfer_wrapper([r EXCEPT !.fn = "ffurl_read_complete"], size, size)

ffurl_write(r, size) ==
    IF ~r.flag_write THEN Return([r EXCEPT !.fn = "ffurl_write"], AVERROR_EIO)
    ELSE IF r.max_packet_size # 0 /\ size > r.max_packet_size
    THEN Return([r EXCEPT !.fn = "ffurl_write"], AVERROR_EIO)
    ELSE retry_transfer_wrapper([r EXCEPT !.fn = "ffurl_write"], size, size)

\* what h->prot->url_read / url_write may return when asked for n bytes
TransferResults(n) == {AVERROR_EINTR, AVERROR_EAGAIN, AVERROR_EIO, 0} \cup (1..n)

\* <<flag_read, flag_write, nonblock>>
HandleFlags == {<<TRUE, TRUE, FALSE>>, <<TRUE, TRUE, TRUE>>,
                <<TRUE, FALSE, FALSE>>, <<FALSE, TRUE, FALSE>>}

InitRetry ==
    /\ s = Parked /\ url = NoUrl /\ dyn = NoDyn
    /\ \E f \in HandleFlags, T \in 0..MaxTimeout, m \in {0, 1}, k \in 0..MaxK :
          rt = URLContext(f[1], f[2], f[3], T, m, k)

UrlRead ==
    /\ rt.on /\ rt.pc = "idle"
    /\ \E size \in 0..MaxLen : rt' = ffurl_read(rt, size)
    /\ UNCHANGED <<s, url, dyn>>

UrlReadComplete ==
    /\ rt.on /\ rt.pc = "idle"
    /\ \E size \in 0..MaxLen : rt' = ffurl_read_complete(rt, size)
    /\ UNCHANGED <<s, url, dyn>>

UrlWrite ==
    /\ rt.on /\ rt.pc = "idle"
    /\ \E size \in 0..MaxLen : rt' = ffurl_write(rt, size)
    /\ UNCHANGED <<s, url, dyn>>

\* the transport answers the next transfer invocation
Transfer ==
    /\ rt.on /\ rt.pc = "loop"
    /\ rt.transfers < MaxIter
    /\ \E res \in TransferResults(rt.size - rt.len), d \in 0..MaxDelay :
          rt' = retry_iteration(rt, res, d)
    /\ UNCHANGED <<s, url, dyn>>

NextRetry == UrlRead \/ UrlReadComplete \/ UrlWrite \/ Transfer

SpecRetry == InitRetry /\ [][NextRetry]_vars

\* S6: a readable blocking handle whose transport answers WouldBlock forever
\* and whose interrupt callback answers non-zero from its k-th poll on
InitS6 ==
    /\ s = Parked /\ url = NoUrl /\ dyn = NoDyn
    /\ \E T \in 0..MaxTimeout, k \in 1..MaxK :
          rt = URLContext(TRUE, FALSE, FALSE, T, 0, k)

UrlReadS6 ==
    /\ rt.on /\ rt.pc = "idle"
    /\ \E size \in 1..MaxLen : rt' = ffurl_read(rt, size)
    /\ UNCHANGED <<s, url, dyn>>

TransferS6 ==
    /\ rt.on /\ rt.pc = "loop"
    /\ rt.transfers < MaxIter
    /\ \E d \in 0..MaxDelay : rt' = retry_iteration(rt, AVERROR_EAGAIN, d)
    /\ UNCHANGED <<s, url, dyn>>

NextS6 == UrlReadS6 \/ TransferS6

\* the caller makes the call, and every transfer invocation returns
SpecS6 == InitS6 /\ [][NextS6]_vars /\ WF_vars(NextS6)

(***************************************************************************)
(* The URL layer (avio.c): the protocol registry, handle allocation with   *)
(* embedded options, connect and close.  A C string is the sequence of its *)
(* characters; positions count from 1 and 0 stands for a NULL pointer.     *)
(***************************************************************************)
\* handles allocated in one run
MaxHandles == 2

AVERROR_ENOMEM == -12

AVERROR_PROTOCOL_NOT_FOUND == -1330794744

AVERROR_OPTION_NOT_FOUND == -1414549496

\* the characters of the model's URLs that are not in URL_SCHEME_CHARS
NonSchemeChars == {":", ",", "/", "=", "_", "\\"}

\* strspn(filename, URL_SCHEME_CHARS)
strspn_scheme(f) ==
    LET ok == {n \in 0..Len(f) : \A i \in 1..n : f[i] \notin NonSchemeChars}
    IN  CHOOSE n \in ok : \A m \in ok : m <= n

\* strchr(f + from - 1, ch): the first position >= from holding ch, or 0
strchr(f, from, ch) ==
    LET at == {i \in from..Len(f) : f[i] = ch}
    IN  IF at = {} THEN 0 ELSE CHOOSE i \in at : \A j \in at : i <= j

\* f[from..to] as a string
Sub(f, from, to) == [i \in 1..(to - from + 1) |-> f[from + i - 1]]

Digits == <<"0", "1", "2", "3", "4", "5", "6", "7", "8", "9">>

IsNumber(v) == Len(v) > 0 /\ \A i \in 1..Len(v) : \E k \in 1..10 : Digits[k] = v[i]

RECURSIVE ParseInt(_)
ParseInt(v) ==
    IF Len(v) = 0 THEN 0
    ELSE 10 * ParseInt(Sub(v, 1, Len(v) - 1))
         + (CHOOSE k \in 0..9 : Digits[k + 1] = v[Len(v)])

\* a path X:... (os_support.h)
is_dos_path(f) == Len(f) >= 2 /\ f[2] = ":"

file_name == <<"f", "i", "l", "e">>

udp_name == <<"u", "d", "p">>

ab_name == <<"a", "b">>

abc_name == <<"a", "b", "+", "c">>

ttl_key == <<"t", "t", "l">>

pkt_size_key == <<"p", "k", "t", "_", "s", "i", "z", "e">>

raw_name == <<"r", "a", "w">>

\* the URLProtocol descriptors a program may register: flags, hooks, the
\* AVOption schema (option name -> default) of the private data class, and
\* what the url_close hook returns
Protocols ==
    [udp |-> [name |-> udp_name, nested |-> FALSE, network |-> TRUE,
              priv_data_size |-> TRUE, priv_data_class |-> TRUE,
              options |-> {<<ttl_key, 16>>, <<pkt_size_key, 1472>>},
              url_open |-> TRUE, url_open2 |-> FALSE,
              url_check |-> FALSE, url_close |-> TRUE, close_ret |-> 0],
     ab  |-> [name |-> ab_name, nested |-> TRUE, network |-> TRUE,
              priv_data_size |-> FALSE, priv_data_class |-> FALSE,
              options |-> {},
              url_open |-> TRUE, url_open2 |-> TRUE,
              url_check |-> TRUE, url_close |-> TRUE, close_ret |-> AVERROR_EIO],
     abc |-> [name |-> abc_name, nested |-> FALSE, network |-> FALSE,
              priv_data_size |-> TRUE, priv_data_class |-> FALSE,
              options |-> {},
              url_open |-> FALSE, url_open2 |-> TRUE,
              url_check |-> FALSE, url_close |-> FALSE, close_ret |-> 0],
     \* a descriptor that sets neither open hook
     raw |-> [name |-> raw_name, nested |-> FALSE, network |-> FALSE,
              priv_data_size |-> FALSE, priv_data_class |-> FALSE,
              options |-> {},
              url_open |-> FALSE, url_open2 |-> FALSE,
              url_check |-> FALSE, url_close |-> TRUE, close_ret |-> 0]]

ProtocolIds == {"udp", "ab", "abc"}

OptionKeys(up) == {o[1] : o \in Protocols[up].options}

\* av_opt_set_defaults
av_opt_set_defaults(up) ==
    [k \in OptionKeys(up) |-> (CHOOSE o \in Protocols[up].options : o[1] = k)[2]]

\* av_opt_set(priv, key, val, 0) on an integer option: <<ret, priv>>
av_opt_set(priv, key, val) ==
    IF key \notin DOMAIN priv THEN <<AVERROR_OPTION_NOT_FOUND, priv>>
    ELSE IF ~IsNumber(val) THEN <<AVERROR_EINVAL, priv>>
    ELSE <<0, [priv EXCEPT ![key] = ParseInt(val)]>>

\* a URLContext slot: free (never allocated), live, or closed (freed)
NoHandle ==
    [st |-> "free", prot |-> "", filename |-> <<>>, priv |-> <<>>,
     is_connected |-> FALSE, opened |-> FALSE, closes |-> 0, avio |-> FALSE,
     \* the open hook ffurl_connect called
     via |-> ""]

\* the state before any protocol is registered
InitUrl ==
    [on |-> TRUE, registry |-> <<>>, handles |-> [h \in 1..MaxHandles |-> NoHandle],
     net |-> 0, net0 |-> 0, leaked |-> FALSE, op |-> "init", ret |-> 0, puc |-> 0]

\* what the environment decides during one call: whether ff_network_init and
\* the allocations succeed, and what the transport's hooks return
\* null_call: what a call through a null function pointer does in this build
NoFault ==
    [net_ok |-> TRUE, mem_ok |-> TRUE, open_ret |-> 0, opt_ok |-> TRUE, fd_ok |-> TRUE,
     null_call |-> "crash"]

\* a call ends at its first failure, so one failure per call covers every path
Envs ==
    {NoFault,
     [NoFault EXCEPT !.net_ok = FALSE],
     [NoFault EXCEPT !.mem_ok = FALSE],
     [NoFault EXCEPT !.open_ret = AVERROR_EIO],
     [NoFault EXCEPT !.opt_ok = FALSE],
     [NoFault EXCEPT !.fd_ok = FALSE]}

FreeSlots(c) == {h \in 1..MaxHandles : c.handles[h].st = "free"}

NewSlot(c) == CHOOSE h \in FreeSlots(c) : \A g \in FreeSlots(c) : h <= g

ffurl_register_protocol(c, up) == [c EXCEPT !.registry = Append(@, up)]

ff_network_init(c) == [c EXCEPT !.net = @ + 1]

ff_network_close(c) == [c EXCEPT !.net = @ - 1]

\* variant: a key that is not an option is skipped
RECURSIVE parse_options_lenient(_, _, _, _)
parse_options_lenient(f, sep, p, priv) ==
    LET key == strchr(f, p, sep)
        val == IF key # 0 /\ p < key THEN strchr(f, key + 1, sep) ELSE 0
    IN  IF key # 0 /\ p < key /\ val # 0
        THEN LET set == av_opt_set(priv, Sub(f, p, key - 1), Sub(f, key + 1, val - 1))
             IN  IF set[1] >= 0 \/ set[1] = AVERROR_OPTION_NOT_FOUND
                 THEN parse_options_lenient(f, sep, val + 1, set[2])
                 ELSE [ret |-> set[1], p |-> val + 1, key |-> key, priv |-> set[2]]
        ELSE [ret |-> 0, p |-> p, key |-> key, priv |-> priv]

\* the while loop of the embedded-option parser, from position p with separator
\* sep: the final ret, p, key and private data
RECURSIVE parse_options(_, _, _, _)
parse_options(f, sep, p, priv) ==
    LET key == strchr(f, p, sep)
        val == IF key # 0 /\ p < key THEN strchr(f, key + 1, sep) ELSE 0
    IN  IF key # 0 /\ p < key /\ val # 0
        THEN LET set == av_opt_set(priv, Sub(f, p, key - 1), Sub(f, key + 1, val - 1))
             IN  IF set[1] >= 0
                 THEN parse_options(f, sep, val + 1, set[2])
                 ELSE [ret |-> set[1], p |-> val + 1, key |-> key, priv |-> set[2]]
        ELSE [ret |-> 0, p |-> p, key |-> key, priv |-> priv]

\* variant: a failed allocation keeps the network reference
url_alloc_fail_leaky(c, up, err) == [c EXCEPT !.puc = 0, !.ret = err]

\* the fail: label of url_alloc_for_protocol
url_alloc_fail(c, up, err) ==
    LET c1 == [c EXCEPT !.puc = 0, !.ret = err]
    IN  IF Protocols[up].network THEN ff_network_close(c1) ELSE c1

\* variant: the option list is left in the filename
excise_kept(f, start, key) == f

\* memmove(start, key+1, strlen(key))
excise(f, start, key) == Sub(f, 1, start - 1) \o Sub(f, key + 1, Len(f))

url_alloc_for_protocol(c, up, filename, e) ==
    IF Protocols[up].network /\ ~e.net_ok THEN [c EXCEPT !.ret = AVERROR_EIO]
    ELSE
    LET c1 == IF Protocols[up].network THEN ff_network_init(c) ELSE c
        start == strchr(filename, 1, ",")
        name == Protocols[up].name
        priv0 == IF Protocols[up].priv_data_size /\ Protocols[up].priv_data_class
                 THEN av_opt_set_defaults(up) ELSE <<>>
        embedded == /\ Protocols[up].priv_data_size /\ Protocols[up].priv_data_class
                    /\ Len(filename) >= Len(name)
                    /\ Sub(filename, 1, Len(name)) = name
                    /\ start = Len(name) + 1
                    \* a filename that ends at the comma makes the parser read
                    \* past the terminator; no URL of the model does
                    /\ start < Len(filename)
        sep == filename[start + 1]
        parsed == parse_options(filename, sep, start + 2, priv0)
        uc == [NoHandle EXCEPT !.st = "live", !.prot = up]
        h == NewSlot(c)
    IN  IF ~e.mem_ok THEN url_alloc_fail(c1, up, AVERROR_ENOMEM)
        ELSE IF ~embedded
        THEN [c1 EXCEPT !.handles[h] = [uc EXCEPT !.filename = filename, !.priv = priv0],
                        !.puc = h, !.ret = 0]
        ELSE IF parsed.ret < 0 \/ parsed.p # parsed.key
        THEN url_alloc_fail(c1, up, AVERROR_EINVAL)
        ELSE [c1 EXCEPT !.handles[h] =
                            [uc EXCEPT !.filename = excise(filename, start, parsed.key),
                                       !.priv = parsed.priv],
                        !.puc = h, !.ret = 0]

\* the scheme ffurl_alloc looks up
proto_str(filename) ==
    LET proto_len == strspn_scheme(filename)
        next == IF proto_len < Len(filename) THEN filename[proto_len + 1] ELSE ""
        str == IF (next # ":" /\ next # ",") \/ is_dos_path(filename)
               THEN file_name ELSE Sub(filename, 1, proto_len)
        comma == strchr(str, 1, ",")
    IN  IF comma # 0 THEN Sub(str, 1, comma - 1) ELSE str

proto_nested(filename) ==
    LET str == proto_str(filename)
        plus == strchr(str, 1, "+")
    IN  IF plus # 0 THEN Sub(str, 1, plus - 1) ELSE str

\* the loop over the registry: the position of the descriptor chosen, or 0
url_find_protocol(registry, filename) ==
    LET hit == {i \in 1..Len(registry) :
                   \/ proto_str(filename) = Protocols[registry[i]].name
                   \/ /\ Protocols[registry[i]].nested
                      /\ proto_nested(filename) = Protocols[registry[i]].name}
    IN  IF hit = {} THEN 0 ELSE CHOOSE i \in hit : \A j \in hit : i <= j

ffurl_alloc(c, filename, e) ==
    LET i == url_find_protocol(c.registry, filename)
    IN  IF i # 0 THEN url_alloc_for_protocol(c, c.registry[i], filename, e)
        ELSE [c EXCEPT !.puc = 0, !.ret = AVERROR_PROTOCOL_NOT_FOUND]

\* variant: url_open is preferred to url_open2
ffurl_connect_open_first(c, h, e) ==
    LET up == Protocols[c.handles[h].prot]
        hook == IF up.url_open THEN "url_open" ELSE "url_open2"
    IN  IF e.open_ret # 0
        THEN [c EXCEPT !.handles[h].via = hook, !.ret = e.open_ret]
        ELSE [c EXCEPT !.handles[h].via = hook,
                       !.handles[h].is_connected = TRUE,
                       !.handles[h].opened = TRUE,
                       !.ret = 0]

\* the open hook (url_open2, else url_open) returns e.open_ret: 0 or an
\* AVERROR.  With neither hook the code calls through the null url_open: the
\* process is killed (op becomes "SIGSEGV" and nothing runs any more), or
\* whatever is executed returns like a hook
ffurl_connect(c, h, e) ==
    LET up == Protocols[c.handles[h].prot]
        hook == IF up.url_open2 THEN "url_open2"
                ELSE IF up.url_open THEN "url_open" ELSE "null"
    IN  IF hook = "null" /\ e.null_call = "crash"
        THEN [c EXCEPT !.handles[h].via = hook, !.op = "SIGSEGV"]
        ELSE IF e.open_ret # 0
        THEN [c EXCEPT !.handles[h].via = hook, !.ret = e.open_ret]
        ELSE [c EXCEPT !.handles[h].via = hook,
                       !.handles[h].is_connected = TRUE,
                       !.handles[h].opened = TRUE,
                       !.ret = 0]

\* variant: the close hook is called whether or not the handle is connected
ffurl_closep_always(c, h) ==
    IF h = 0 THEN [c EXCEPT !.ret = 0]
    ELSE
    LET up == c.handles[h].prot
        hook == Protocols[up].url_close
        c1 == IF hook THEN [c EXCEPT !.handles[h].closes = @ + 1] ELSE c
        c2 == IF Protocols[up].network THEN ff_network_close(c1) ELSE c1
    IN  [c2 EXCEPT !.handles[h].st = "closed",
                   !.ret = IF hook THEN Protocols[up].close_ret ELSE 0]

ffurl_closep(c, h) ==
    IF h = 0 THEN [c EXCEPT !.ret = 0]
    ELSE
    LET up == c.handles[h].prot
        hook == c.handles[h].is_connected /\ Protocols[up].url_close
        c1 == IF hook THEN [c EXCEPT !.handles[h].closes = @ + 1] ELSE c
        c2 == IF Protocols[up].network THEN ff_network_close(c1) ELSE c1
    IN  [c2 EXCEPT !.handles[h].st = "closed",
                   !.handles[h].filename = <<>>,
                   !.handles[h].priv = <<>>,
                   !.ret = IF hook THEN Protocols[up].close_ret ELSE 0]

ffurl_close(c, h) == ffurl_closep(c, h)

\* options: whether the caller passes an AVDictionary
ffurl_open(c, filename, options, e) ==
    LET connect(c1, h) ==
            IF options /\ Protocols[c1.handles[h].prot].priv_data_class /\ ~e.opt_ok
            THEN [c1 EXCEPT !.ret = AVERROR_EINVAL]
            ELSE ffurl_connect(c1, h, e)
        connected(c2, h) ==
            IF c2.ret = 0 THEN c2
            ELSE [ffurl_close(c2, h) EXCEPT !.puc = 0, !.ret = c2.ret]
        allocated(c1) ==
            IF c1.ret # 0 THEN c1 ELSE connected(connect(c1, c1.puc), c1.puc)
    IN  allocated(ffurl_alloc(c, filename, e))

\* ffio_fdopen fails when an allocation does
avio_open2(c, filename, options, e) ==
    LET opened(c1) ==
            IF c1.ret < 0 THEN c1
            ELSE IF ~e.fd_ok
            THEN [ffurl_close(c1, c1.puc) EXCEPT !.ret = AVERROR_ENOMEM]
            ELSE [c1 EXCEPT !.handles[c1.puc].avio = TRUE, !.ret = 0]
    IN  opened(ffurl_open(c, filename, options, e))

\* flags is AVIO_FLAG_READ; the check hook returns flags or an AVERROR
avio_check(c, filename, e) ==
    LET connected(c3) == IF c3.ret >= 0 THEN [c3 EXCEPT !.ret = 1] ELSE c3
        check(c1, h) ==
            IF Protocols[c1.handles[h].prot].url_check
            THEN [c1 EXCEPT !.ret = IF e.open_ret = 0 THEN 1 ELSE e.open_ret]
            ELSE connected(ffurl_connect(c1, h, e))
        closed(c2, h) == [ffurl_close(c2, h) EXCEPT !.ret = c2.ret]
        allocated(c1) ==
            IF c1.ret # 0 THEN c1 ELSE closed(check(c1, c1.puc), c1.puc)
    IN  allocated(ffurl_alloc(c, filename, e))

\* avio_close of the AVIOContext avio_open2 made over handle h
avio_close(c, h) == ffurl_close(c, h)

\* the filename scheme,SEP k SEP v SEP ... SEP rest of an embedded option list
RECURSIVE OptionList(_, _)
OptionList(sep, pairs) ==
    IF pairs = <<>> THEN <<>>
    ELSE Head(pairs)[1] \o <<sep>> \o Head(pairs)[2] \o <<sep>>
         \o OptionList(sep, Tail(pairs))

OptionUrl(name, sep, pairs, rest) ==
    name \o <<",", sep>> \o OptionList(sep, pairs) \o <<sep>> \o rest

HostRest == <<":", "/", "/", "h", "o", "s", "t", ":", "1", "2", "3", "4">>

\* "udp,ttl=7,pkt_size=1316://host:1234"
S5Url ==
    udp_name \o <<",">> \o ttl_key \o <<"=", "7", ",">> \o pkt_size_key
    \o <<"=", "1", "3", "1", "6">> \o HostRest

\* "udp,,ttl,7,pkt_size,1316,,://host:1234"
S5SepUrl ==
    OptionUrl(udp_name, ",", <<<<ttl_key, <<"7">>>>,
                               <<pkt_size_key, <<"1", "3", "1", "6">>>>>>, HostRest)

\* filenames without an option list
PlainUrls ==
    {ab_name \o <<":", "x">>,                      \* "ab:x"
     abc_name \o <<":", "x">>,                     \* "ab+c:x"
     udp_name \o HostRest,                         \* "udp://host:1234"
     <<"z", "z", ":", "x">>,                       \* no such protocol
     <<"x">>,                                      \* a plain path
     <<"c", ":", "x">>}                            \* a DOS path

\* the filenames callers pass
Urls ==
    PlainUrls \cup
    {S5Url,
     S5SepUrl,
     OptionUrl(udp_name, ",", <<<<<<"z">>, <<"1">>>>>>, <<":", "x">>),   \* unknown key
     udp_name \o <<",", ",">> \o ttl_key \o <<",", "7">>}     \* no end of value

EnterUrl(c, op) == [c EXCEPT !.op = op, !.ret = 0, !.puc = 0, !.net0 = c.net]

\* the handles that are allocated and not yet closed
Live(c) == {h \in 1..MaxHandles : c.handles[h].st = "live"}

LiveNetwork(c) == {h \in Live(c) : Protocols[c.handles[h].prot].network}

\* between calls: whether a call that failed changed the network count (a
\* close always takes the handle's share, whatever the close hook returns)
LeaveUrl(c) ==
    [c EXCEPT !.leaked = @ \/ (c.ret < 0 /\ c.net # c.net0
                                  /\ c.op \notin {"ffurl_close", "avio_close"}),
              !.net0 = 0, !.puc = 0]

InitUrlLayer == s = Parked /\ rt = NoRetry /\ dyn = NoDyn /\ url = InitUrl

Register ==
    /\ \E up \in ProtocolIds :
          /\ \A i \in 1..Len(url.registry) : url.registry[i] # up
          /\ url' = LeaveUrl(ffurl_register_protocol(EnterUrl(url, "ffurl_register_protocol"), up))
    /\ UNCHANGED <<s, rt, dyn>>

Alloc ==
    /\ FreeSlots(url) # {}
    /\ \E f \in Urls, e \in Envs :
          url' = LeaveUrl(ffurl_alloc(EnterUrl(url, "ffurl_alloc"), f, e))
    /\ UNCHANGED <<s, rt, dyn>>

Connect ==
    /\ \E h \in Live(url), e \in Envs :
          /\ ~url.handles[h].is_connected /\ ~url.handles[h].avio
          /\ url' = LeaveUrl(ffurl_connect(EnterUrl(url, "ffurl_connect"), h, e))
    /\ UNCHANGED <<s, rt, dyn>>

Open ==
    /\ FreeSlots(url) # {}
    /\ \E f \in PlainUrls, options \in BOOLEAN, e \in Envs :
          url' = LeaveUrl(ffurl_open(EnterUrl(url, "ffurl_open"), f, options, e))
    /\ UNCHANGED <<s, rt, dyn>>

Open2 ==
    /\ FreeSlots(url) # {}
    /\ \E f \in PlainUrls, options \in BOOLEAN, e \in Envs :
          url' = LeaveUrl(avio_open2(EnterUrl(url, "avio_open2"), f, options, e))
    /\ UNCHANGED <<s, rt, dyn>>

Check ==
    /\ FreeSlots(url) # {}
    /\ \E f \in PlainUrls, e \in Envs :
          url' = LeaveUrl(avio_check(EnterUrl(url, "avio_check"), f, e))
    /\ UNCHANGED <<s, rt, dyn>>

Close ==
    /\ \E h \in Live(url) :
          /\ ~url.handles[h].avio
          /\ url' = LeaveUrl(ffurl_close(EnterUrl(url, "ffurl_close"), h))
    /\ UNCHANGED <<s, rt, dyn>>

AvioClose ==
    /\ \E h \in Live(url) :
          /\ url.handles[h].avio
          /\ url' = LeaveUrl(avio_close(EnterUrl(url, "avio_close"), h))
    /\ UNCHANGED <<s, rt, dyn>>

NextUrl ==
    Register \/ Alloc \/ Connect \/ Open \/ Open2 \/ Check \/ Close \/ AvioClose

SpecUrl == InitUrlLayer /\ [][NextUrl]_vars

(***************************************************************************)
(* A write-mode stream over a handle (avio_open2 with AVIO_FLAG_WRITE):    *)
(* ffio_fdopen makes the stream with ffurl_read, ffurl_write and           *)
(* ffurl_seek as callbacks and the handle, url.handles[1], as opaque.  The *)
(* stream's log holds the calls that reach the handle: write_packet is     *)
(* ffurl_write, seek is ffurl_seek, url_close the close hook.              *)
(***************************************************************************)
\* ffio_fdopen for a handle with the given max_packet_size and flags
ffio_fdopen(max_packet_size, write, direct, streamed) ==
    LET buffer_size == IF max_packet_size # 0 THEN max_packet_size ELSE IO_BUFFER_SIZE
    IN  [ffio_init_context(buffer_size, write, TRUE, TRUE, TRUE)
            EXCEPT !.direct = direct,
                   !.seekable = ~streamed,
                   !.max_packet_size = max_packet_size]

\* variant: the handle is closed before the stream is flushed
avio_close_stream_early(c, u, h) ==
    LET closed == ffurl_close(u, h)
        hook == closed.handles[h].closes > u.handles[h].closes
        flushed(c1) == [c1 EXCEPT !.buffer = <<>>, !.ret = closed.ret]
    IN  <<flushed(avio_flush([c EXCEPT !.log = IF hook
                                               THEN Append(@, Call("url_close", <<>>, 0))
                                               ELSE @])),
          closed>>

\* avio_close of the stream c made over handle h of u: the stream and the URL
\* layer afterwards; the stream's ret is what avio_close returns
avio_close_stream(c, u, h) ==
    LET closed == ffurl_close(u, h)
        hook == closed.handles[h].closes > u.handles[h].closes
        freed(c1) ==
            [c1 EXCEPT !.buffer = <<>>,
                       !.log = IF hook THEN Append(@, Call("url_close", <<>>, 0))
                               ELSE @,
                       !.ret = closed.ret]
    IN  <<freed(avio_flush(c)), closed>>

DoClose(c, u, orc) ==
    avio_close_stream(Enter(c, "avio_close", orc), EnterUrl(u, "avio_close"), 1)

\* the registry of a program that registered the three descriptors
Registered == [InitUrl EXCEPT !.registry = <<"abc", "ab", "udp">>]

\* "ab+c:x", "ab:x", "udp://host:1234"
CloseUrls == {abc_name \o <<":", "x">>, ab_name \o <<":", "x">>, udp_name \o HostRest}

InitClose ==
    /\ \E f \in CloseUrls :
          url = LeaveUrl(avio_open2(EnterUrl(Registered, "avio_open2"), f, FALSE, NoFault))
    /\ \E mps \in {0, 1}, direct \in BOOLEAN, streamed \in BOOLEAN :
          s = ffio_fdopen(mps, TRUE, direct, streamed)
    /\ rt = NoRetry /\ dyn = NoDyn

\* the stream is not yet closed
StreamOpen == url.handles[1].st = "live"

CloseStream ==
    /\ StreamOpen
    /\ \E orc \in WriteScripts1 :
          /\ s' = Leave(DoClose(s, url, orc)[1])
          /\ url' = LeaveUrl(DoClose(s, url, orc)[2])
    /\ UNCHANGED <<rt, dyn>>

\* the operations of the write-mode stream, for as long as it is open
OpenW8 == StreamOpen /\ W8

OpenWrite == StreamOpen /\ Write

OpenFlush == StreamOpen /\ Flush

OpenSeek == StreamOpen /\ Seek

NextClose == OpenW8 \/ OpenWrite \/ OpenFlush \/ OpenSeek \/ CloseStream

SpecClose == InitClose /\ [][NextClose]_vars

(***************************************************************************)
(* Handles of a program that also registered a descriptor without open     *)
(* hooks.  After a call through the null hook killed the process no        *)
(* operation runs.                                                         *)
(***************************************************************************)
AVERROR_ENOSYS == -38

\* "raw:x" beside the filenames of the other descriptors
ConnectUrls == CloseUrls \cup {raw_name \o <<":", "x">>}

\* the environments of ffurl_connect: what the hook returns, and what a call
\* through a null pointer does
ConnectEnvs ==
    {[NoFault EXCEPT !.open_ret = r, !.null_call = n] :
         r \in {0, AVERROR_EIO}, n \in {"crash", "returns"}}

InitConnect ==
    /\ s = Parked /\ rt = NoRetry /\ dyn = NoDyn
    /\ url = [InitUrl EXCEPT !.registry = <<"abc", "ab", "udp", "raw">>]

Running == url.op # "SIGSEGV"

RunAlloc ==
    /\ Running /\ FreeSlots(url) # {}
    /\ \E f \in ConnectUrls, e \in Envs :
          url' = LeaveUrl(ffurl_alloc(EnterUrl(url, "ffurl_alloc"), f, e))
    /\ UNCHANGED <<s, rt, dyn>>

RunConnect ==
    /\ Running
    /\ \E h \in Live(url), e \in ConnectEnvs :
          /\ ~url.handles[h].is_connected
          /\ url' = LeaveUrl(ffurl_connect(EnterUrl(url, "ffurl_connect"), h, e))
    /\ UNCHANGED <<s, rt, dyn>>

RunClose == Running /\ Close

NextConnect == RunAlloc \/ RunConnect \/ RunClose

SpecConnect == InitConnect /\ [][NextConnect]_vars

(***************************************************************************)
(* Dynamic buffers (aviobuf.c).  dyn holds the DynBuffer behind s->opaque: *)
(* pos, size, allocated_size and the bytes of d->buffer.  The calls s      *)
(* makes to write_packet and seek during an operation are in s.log; Sink   *)
(* hands them to dyn_buf_write, dyn_packet_buf_write and dyn_buf_seek in   *)
(* order.  av_realloc_f is taken to succeed.  Beside the fields of the     *)
(* code dyn keeps the largest pos of any step (maxpos), the largest pos    *)
(* left by a write (maxwpos), the buffers handed to the packetised sink    *)
(* (chunks), the offsets the caller wrote (wrote), the seeks and bytes the *)
(* stream has seen (nseek, written), what avio_close_dyn_buf returned      *)
(* (closed, ret), the typed values written to the buffer (vals) and those  *)
(* read back from the bytes returned, with the bytes each took (got).      *)
(***************************************************************************)
\* the io_buffer_size of a continuous buffer (1024 in the code)
DynIoBufferSize == 3

\* the padding avio_close_dyn_buf appends (16 in the code)
FF_INPUT_BUFFER_PADDING_SIZE == 2

\* the largest max_packet_size of a packetised buffer
MaxPacketSize == 4

\* the bytes a caller writes to one dynamic buffer
MaxDynWritten == 4

\* the seeks a caller makes on one dynamic buffer
MaxDynSeeks == 2

INT_MAX == 2147483647

\* the sizes av_realloc_f is called with
RECURSIVE grow(_, _)
grow(new_size, new_allocated_size) ==
    IF new_size > new_allocated_size
    THEN grow(new_size, IF new_allocated_size = 0 THEN new_size
                        ELSE new_allocated_size + new_allocated_size \div 2 + 1)
    ELSE new_allocated_size

\* variant: size follows pos down
dyn_buf_write_shrinking(d, buf) ==
    LET new_size == d.pos + Len(buf)
        new_allocated_size == grow(new_size, d.allocated_size)
    IN  [d EXCEPT !.buffer = [k \in 1..new_allocated_size |->
                                 IF k > d.pos /\ k <= new_size THEN buf[k - d.pos]
                                 ELSE IF k <= d.allocated_size THEN d.buffer[k]
                                 ELSE GARBAGE],
                  !.allocated_size = new_allocated_size,
                  !.pos = new_size,
                  !.size = new_size,
                  !.r = Len(buf)]

\* the result is left in r; memory beyond the old allocation is not initialised
dyn_buf_write(d, buf) ==
    LET new_size == d.pos + Len(buf)
        new_allocated_size == grow(new_size, d.allocated_size)
    IN  IF new_size < d.pos \/ new_size > INT_MAX \div 2
        THEN [d EXCEPT !.r = -1]
        ELSE [d EXCEPT !.buffer = [k \in 1..new_allocated_size |->
                                      IF k > d.pos /\ k <= new_size THEN buf[k - d.pos]
                                      ELSE IF k <= d.allocated_size THEN d.buffer[k]
                                      ELSE GARBAGE],
                       !.allocated_size = new_allocated_size,
                       !.pos = new_size,
                       !.size = IF new_size > d.size THEN new_size ELSE @,
                       !.r = Len(buf)]

\* variant: the header is little-endian
AV_WL32(v) ==
    <<v % 256, (v \div 256) % 256, (v \div 65536) % 256, (v \div 16777216) % 256>>

\* AV_WB32(buf1, v)
AV_WB32(v) ==
    <<(v \div 16777216) % 256, (v \div 65536) % 256, (v \div 256) % 256, v % 256>>

dyn_packet_buf_write(d, buf) ==
    LET d1 == dyn_buf_write(d, AV_WB32(Len(buf)))
    IN  IF d1.r < 0 THEN d1 ELSE dyn_buf_write(d1, buf)

dyn_buf_seek(d, offset0, whence) ==
    LET offset == IF whence = SEEK_CUR THEN offset0 + d.pos
                  ELSE IF whence = SEEK_END THEN offset0 + d.size
                  ELSE offset0
    IN  IF offset < 0 \/ offset > INT_MAX
        THEN [d EXCEPT !.r = -1]
        ELSE [d EXCEPT !.pos = offset, !.r = 0]

\* one callback of s reaches the DynBuffer
sink_call(d, call) ==
    LET d1 == IF call.fn = "seek" THEN dyn_buf_seek(d, call.off, SEEK_SET)
              ELSE IF d.max_packet_size # 0 THEN dyn_packet_buf_write(d, call.data)
              ELSE dyn_buf_write(d, call.data)
    IN  [d1 EXCEPT !.maxpos = Max(@, d1.pos),
                   !.maxwpos = IF call.fn = "seek" THEN @ ELSE Max(@, d1.pos),
                   !.chunks = IF call.fn = "seek" THEN @ ELSE Append(@, call.data)]

\* the callbacks of one operation, in order
RECURSIVE Sink(_, _)
Sink(d, log) ==
    IF log = <<>> THEN d ELSE Sink(sink_call(d, Head(log)), Tail(log))

\* <<AVIOContext, DynBuffer>> as url_open_dyn_buf_internal leaves them
url_open_dyn_buf_internal(max_packet_size) ==
    LET io_buffer_size == IF max_packet_size # 0 THEN max_packet_size
                          ELSE DynIoBufferSize
        c == ffio_init_context(io_buffer_size, TRUE, FALSE, TRUE, max_packet_size = 0)
    \* av_mallocz(sizeof(DynBuffer) + io_buffer_size): the bytes of io_buffer[1]
    \* and io_buffer_size more, all zero
    IN  <<[c EXCEPT !.buffer = [k \in 1..(io_buffer_size + 1) |-> 0],
                    !.max_packet_size = max_packet_size],
          [on |-> TRUE, pos |-> 0, size |-> 0, allocated_size |-> 0,
           buffer |-> <<>>, io_buffer_size |-> io_buffer_size,
           max_packet_size |-> max_packet_size, r |-> 0,
           maxpos |-> 0, maxwpos |-> 0, chunks |-> <<>>, wrote |-> {},
           closed |-> FALSE, ret |-> 0, nseek |-> 0, written |-> 0,
           vals |-> <<>>, got |-> <<>>]>>

avio_open_dyn_buf == url_open_dyn_buf_internal(0)

ffio_open_dyn_packet_buf(max_packet_size) == url_open_dyn_buf_internal(max_packet_size)

padbuf == [k \in 1..FF_INPUT_BUFFER_PADDING_SIZE |-> 0]

\* the DynBuffer when avio_close_dyn_buf returns: buffer is *pbuffer, ret the
\* length returned
avio_close_dyn_buf(c, d) ==
    LET c0 == Enter(c, "avio_close_dyn_buf", <<>>)
        c1 == IF c0.max_packet_size = 0 THEN avio_write(c0, padbuf) ELSE c0
        padding == IF c0.max_packet_size = 0 THEN FF_INPUT_BUFFER_PADDING_SIZE ELSE 0
        c2 == avio_flush(c1)
        d1 == Sink(d, c2.log)
    IN  [d1 EXCEPT !.closed = TRUE, !.ret = d1.size - padding]

\* the state of both objects after an operation on s
dyn_after(c, d) ==
    <<Leave(c), [Sink(d, c.log) EXCEPT !.nseek = c.nseek, !.written = c.written]>>

\* the offsets [from, from + n)
Offsets(from, n) == {from + k : k \in 0..(n - 1)}

PacketSizes == {MaxPacketSize - 1, MaxPacketSize}

InitDyn ==
    /\ \E m \in {0} \cup PacketSizes :
          /\ s = url_open_dyn_buf_internal(m)[1]
          /\ dyn = url_open_dyn_buf_internal(m)[2]
    /\ rt = NoRetry /\ url = NoUrl

DynW8 ==
    /\ ~dyn.closed /\ s.written < MaxDynWritten
    /\ LET after == dyn_after(DoW8(s, <<>>), dyn)
       IN  /\ s' = after[1]
           /\ dyn' = [after[2] EXCEPT !.wrote = @ \cup Offsets(avio_tell(s), 1)]
    /\ UNCHANGED <<rt, url>>

DynWrite ==
    /\ ~dyn.closed
    /\ \E n \in 2..MaxDynWritten :
          /\ s.written + n <= MaxDynWritten
          /\ LET after == dyn_after(DoWrite(s, n, <<>>), dyn)
             IN  /\ s' = after[1]
                 /\ dyn' = [after[2] EXCEPT !.wrote = @ \cup Offsets(avio_tell(s), n)]
    /\ UNCHANGED <<rt, url>>

DynFlush ==
    /\ ~dyn.closed
    /\ LET after == dyn_after(DoFlush(s, <<>>), dyn)
       IN  s' = after[1] /\ dyn' = after[2]
    /\ UNCHANGED <<rt, url>>

DynSeek ==
    /\ ~dyn.closed /\ s.nseek < MaxDynSeeks
    /\ \E a \in SeekArgs :
          /\ a[2] = SEEK_CUR => avio_tell(s) + a[1] \in 0..MaxOff
          /\ LET after == dyn_after(DoSeek(s, a, <<>>), dyn)
             IN  s' = after[1] /\ dyn' = after[2]
    /\ UNCHANGED <<rt, url>>

\* avio_close_dyn_buf frees s
DynClose ==
    /\ ~dyn.closed
    /\ dyn' = avio_close_dyn_buf(s, dyn)
    /\ s' = Parked
    /\ UNCHANGED <<rt, url>>

NextDyn == DynW8 \/ DynWrite \/ DynFlush \/ DynSeek \/ DynClose

SpecDyn == InitDyn /\ [][NextDyn]_vars

(***************************************************************************)
(* Typed I/O (aviobuf.c).  A uint64_t or unsigned int is the sequence of   *)
(* its 64 bits, least significant first; an unsigned int has the upper 32  *)
(* clear.  The writers hand avio_w8 the low 8 bits of their argument, as   *)
(* the store *s->buf_ptr++ = b keeps them.                                 *)
(***************************************************************************)
\* the values written to one buffer
MaxVals == 2

Pow2(n) == 2 ^ n

\* the 64 bits of f, as a sequence
Vec(f) == SubSeq(f, 1, 64)

\* the value whose bytes are given least significant first
Bits(bytes) ==
    Vec([i \in 1..64 |->
            IF (i - 1) \div 8 < Len(bytes)
            THEN (bytes[(i - 1) \div 8 + 1] \div Pow2((i - 1) % 8)) % 2
            ELSE 0])

Zero == Bits(<<>>)

\* (uint8_t)v as an int
U8(v) == v[1] + 2 * v[2] + 4 * v[3] + 8 * v[4] + 16 * v[5] + 32 * v[6]
         + 64 * v[7] + 128 * v[8]

\* v truncated to w bits
Trunc(v, w) == Vec([i \in 1..64 |-> IF i <= w THEN v[i] ELSE 0])

\* v >> n
Shr(v, n) == Vec([i \in 1..64 |-> IF i + n <= 64 THEN v[i + n] ELSE 0])

\* (int)v >> n of an unsigned int v
Sar32(v, n) ==
    Vec([i \in 1..64 |-> IF i > 32 THEN 0 ELSE IF i + n <= 32 THEN v[i + n] ELSE v[32]])

\* v << n in w bits
Shl(v, n, w) == Vec([i \in 1..64 |-> IF i > n /\ i <= w THEN v[i - n] ELSE 0])

\* a | b
Or(a, b) == Vec([i \in 1..64 |-> IF a[i] = 1 \/ b[i] = 1 THEN 1 ELSE 0])

\* the carry into bit i of a + b: some lower bit generates one and every bit
\* in between passes it on
Carry(a, b, i) ==
    IF \E j \in 1..(i - 1) :
           /\ a[j] + b[j] = 2
           /\ \A k \in (j + 1)..(i - 1) : a[k] + b[k] >= 1
    THEN 1 ELSE 0

\* a + b in 64 bits
Add(a, b) == Vec([i \in 1..64 |-> (a[i] + b[i] + Carry(a, b, i)) % 2])

\* variant: the bytes go out least significant first
avio_wb32_swapped(c, val) ==
    avio_w8(avio_w8(avio_w8(avio_w8(c, U8(val)), U8(Shr(val, 8))),
                    U8(Shr(val, 16))), U8(Shr(val, 24)))

avio_wl32(c, val) ==
    avio_w8(avio_w8(avio_w8(avio_w8(c, U8(val)), U8(Shr(val, 8))),
                    U8(Shr(val, 16))), U8(Shr(val, 24)))

avio_wb32(c, val) ==
    avio_w8(avio_w8(avio_w8(avio_w8(c, U8(Shr(val, 24))), U8(Shr(val, 16))),
                    U8(Shr(val, 8))), U8(val))

RECURSIVE ff_get_v_length(_)
ff_get_v_length(val) ==
    IF Shr(val, 7) = Zero THEN 1 ELSE 1 + ff_get_v_length(Shr(val, 7))

\* while(--i>0) avio_w8(bc, 128 | (uint8_t)(val>>(7*i))), from i on
RECURSIVE ff_put_v_loop(_, _, _)
ff_put_v_loop(c, val, i) ==
    IF i > 0
    THEN LET b == U8(Shr(val, 7 * i))
         IN  ff_put_v_loop(avio_w8(c, IF b >= 128 THEN b ELSE 128 + b), val, i - 1)
    ELSE c

ff_put_v(c, val) ==
    avio_w8(ff_put_v_loop(c, val, ff_get_v_length(val) - 1), U8(val) % 128)

avio_wl64(c, val) == avio_wl32(avio_wl32(c, Trunc(val, 32)), Trunc(Shr(val, 32), 32))

avio_wb64(c, val) == avio_wb32(avio_wb32(c, Trunc(Shr(val, 32), 32)), Trunc(val, 32))

avio_wl16(c, val) == avio_w8(avio_w8(c, U8(val)), U8(Sar32(val, 8)))

avio_wb16(c, val) == avio_w8(avio_w8(c, U8(Sar32(val, 8))), U8(val))

avio_wl24(c, val) == avio_w8(avio_wl16(c, Trunc(val, 16)), U8(Sar32(val, 16)))

avio_wb24(c, val) == avio_w8(avio_wb16(c, Sar32(val, 8)), U8(val))

\* the int avio_r8 returned, as a value
Byte(c) == Bits(<<c.ret>>)

\* the readers: <<stream, value returned>>
avio_rl16(c) ==
    LET second(c1, c2) == <<c2, Or(Byte(c1), Shl(Byte(c2), 8, 32))>>
        first(c1) == second(c1, avio_r8(c1))
    IN  first(avio_r8(c))

avio_rl24(c) ==
    LET second(r1, c2) == <<c2, Or(r1[2], Shl(Byte(c2), 16, 32))>>
        first(r1) == second(r1, avio_r8(r1[1]))
    IN  first(avio_rl16(c))

avio_rl32(c) ==
    LET second(r1, r2) == <<r2[1], Or(r1[2], Shl(r2[2], 16, 32))>>
        first(r1) == second(r1, avio_rl16(r1[1]))
    IN  first(avio_rl16(c))

avio_rl64(c) ==
    LET second(r1, r2) == <<r2[1], Or(r1[2], Shl(r2[2], 32, 64))>>
        first(r1) == second(r1, avio_rl32(r1[1]))
    IN  first(avio_rl32(c))

avio_rb16(c) ==
    LET second(c1, c2) == <<c2, Or(Shl(Byte(c1), 8, 32), Byte(c2))>>
        first(c1) == second(c1, avio_r8(c1))
    IN  first(avio_r8(c))

avio_rb24(c) ==
    LET second(r1, c2) == <<c2, Or(Shl(r1[2], 8, 32), Byte(c2))>>
        first(r1) == second(r1, avio_r8(r1[1]))
    IN  first(avio_rb16(c))

avio_rb32(c) ==
    LET second(r1, r2) == <<r2[1], Or(Shl(r1[2], 16, 32), r2[2])>>
        first(r1) == second(r1, avio_rb16(r1[1]))
    IN  first(avio_rb16(c))

avio_rb64(c) ==
    LET second(r1, r2) == <<r2[1], Or(Shl(r1[2], 32, 64), r2[2])>>
        first(r1) == second(r1, avio_rb32(r1[1]))
    IN  first(avio_rb32(c))

\* the do-while loop of ffio_read_varlen, with val so far
RECURSIVE ffio_read_varlen_loop(_, _)
ffio_read_varlen_loop(c, val) ==
    LET shifted(c1, val1) ==
            IF (c1.ret \div 128) % 2 = 1 THEN ffio_read_varlen_loop(c1, val1)
            ELSE <<c1, val1>>
        read(c1) == shifted(c1, Add(Shl(val, 7, 64), Bits(<<c1.ret % 128>>)))
    IN  read(avio_r8(c))

ffio_read_varlen(c) == ffio_read_varlen_loop(c, Zero)

\* the writers and readers by name
TypedKinds == {"l16", "l24", "l32", "l64", "b16", "b24", "b32", "b64", "v"}

typed_write(c, kind, val) ==
    CASE kind = "l16" -> avio_wl16(c, val)
      [] kind = "l24" -> avio_wl24(c, val)
      [] kind = "l32" -> avio_wl32(c, val)
      [] kind = "l64" -> avio_wl64(c, val)
      [] kind = "b16" -> avio_wb16(c, val)
      [] kind = "b24" -> avio_wb24(c, val)
      [] kind = "b32" -> avio_wb32(c, val)
      [] kind = "b64" -> avio_wb64(c, val)
      [] kind = "v" -> ff_put_v(c, val)

typed_read(c, kind) ==
    CASE kind = "l16" -> avio_rl16(c)
      [] kind = "l24" -> avio_rl24(c)
      [] kind = "l32" -> avio_rl32(c)
      [] kind = "l64" -> avio_rl64(c)
      [] kind = "b16" -> avio_rb16(c)
      [] kind = "b24" -> avio_rb24(c)
      [] kind = "b32" -> avio_rb32(c)
      [] kind = "b64" -> avio_rb64(c)
      [] kind = "v" -> ffio_read_varlen(c)

\* the width in bits of the values a writer takes
KindBits(kind) ==
    CASE kind \in {"l16", "b16"} -> 16
      [] kind \in {"l24", "b24"} -> 24
      [] kind \in {"l32", "b32"} -> 32
      [] OTHER -> 64

\* 0x1122334455667788
Pattern == Bits(<<136, 119, 102, 85, 68, 51, 34, 17>>)

AllOnes == Bits(<<255, 255, 255, 255, 255, 255, 255, 255>>)

\* the values callers write: a pattern, all ones and the top bit alone in the
\* width of the writer; for ff_put_v also values of one and two bytes
TypedValues(kind) ==
    {Trunc(Pattern, KindBits(kind)), Trunc(AllOnes, KindBits(kind)),
     Shl(Bits(<<1>>), KindBits(kind) - 1, 64)}
    \cup (IF kind = "v" THEN {Zero, Bits(<<127>>), Bits(<<128>>)} ELSE {})

\* read_packet returns what is asked for, or less when told so
ChunkScripts == Scripts2(1..MaxChunk, MaxChunk, {})

InitTyped ==
    /\ s = avio_open_dyn_buf[1]
    /\ dyn = avio_open_dyn_buf[2]
    /\ rt = NoRetry /\ url = NoUrl

\* one of the typed writers
PutTyped ==
    /\ ~dyn.closed /\ Len(dyn.vals) < MaxVals
    /\ \E kind \in TypedKinds : \E val \in TypedValues(kind) :
          LET written(after) ==
                  /\ s' = after[1]
                  /\ dyn' = [after[2] EXCEPT !.vals = Append(@, <<kind, val>>)]
          IN  written(dyn_after(typed_write(Enter(s, kind, <<>>), kind, val), dyn))
    /\ UNCHANGED <<rt, url>>

\* the bytes avio_close_dyn_buf returned are read back through a stream of
\* their own
OpenRead ==
    /\ dyn.closed /\ s = Parked
    /\ \E size \in BufferSizes :
          s' = [ffio_init_context(size, FALSE, TRUE, FALSE, FALSE)
                   EXCEPT !.src = SubSeq(dyn.buffer, 1, dyn.ret)]
    /\ UNCHANGED <<dyn, rt, url>>

\* the typed reader that matches the next value written
GetTyped ==
    /\ dyn.closed /\ s.read_packet /\ Len(dyn.got) < Len(dyn.vals)
    /\ \E orc \in ChunkScripts :
          LET kind == dyn.vals[Len(dyn.got) + 1][1]
              read(res) ==
                  /\ s' = Leave(res[1])
                  /\ dyn' = [dyn EXCEPT !.got = Append(@, <<res[2], avio_tell(res[1]) - avio_tell(s)>>)]
          IN  read(typed_read(Enter(s, kind, orc), kind))
    /\ UNCHANGED <<rt, url>>

NextTyped == PutTyped \/ DynClose \/ OpenRead \/ GetTyped

SpecTyped == InitTyped /\ [][NextTyped]_vars

(***************************************************************************)
(* Properties of the buffered stream                                       *)
(***************************************************************************)
\* the callbacks a call invoked, by name
Invoked(c, fn) == \E k \in 1..Len(c.log) : c.log[k].fn = fn

\* the absolute range [a, b] a read-mode buffer holds
WindowStart(c) == c.pos - c.buf_end

WindowEnd(c) == c.pos

\* C1 as stated: on a write-mode stream that was never sought, pos is the
\* number of bytes handed to write_packet, whatever errors were latched.
C1_PosEqualsHanded == (s.write_flag /\ s.nseek = 0) => s.pos = s.handed

\* C1 amended: on a write-mode stream that was never sought, pos is the number
\* of bytes that left the buffer (all the caller wrote but the pending ones);
\* it is the number of bytes handed to write_packet as long as no error is
\* latched, and at least that number afterwards.
C1_PosCountsFlushed ==
    (s.write_flag /\ s.nseek = 0) =>
        /\ s.pos = s.written - s.buf_ptr
        /\ s.handed <= s.pos
        /\ s.error = 0 => s.handed = s.pos

\* an error was latched mid-stream and bytes were flushed after it
C1_Witness ==
    /\ s.write_flag /\ s.nseek = 0 /\ s.op = "avio_flush"
    /\ s.error # 0 /\ 0 < s.handed /\ s.handed < s.pos

\* C2: on a read-mode stream that was never sought, avio_seek(s, 0, SEEK_CUR)
\* reports the number of bytes delivered to the caller.
C2_ReadOffsetCoherent == (~s.write_flag /\ s.nseek = 0) => avio_tell(s) = s.consumed

\* the whole object was read through avio_read, refills included
C2_Witness ==
    /\ ~s.write_flag /\ s.read_packet /\ s.nseek = 0 /\ s.op = "avio_read"
    /\ s.consumed = SrcLen /\ Len(s.log) >= 2

\* C3 as stated: in read mode a SEEK_SET to a target inside the buffered range
\* never invokes the seek callback, whatever the stream's configuration.
C3_InBufferSeekNeverDelegates ==
    (~s.write_flag /\ s.buf_end > 0) =>
        \A t \in WindowStart(s)..WindowEnd(s), orc \in ReadScripts1 :
            ~Invoked(DoSeek(s, <<t, SEEK_SET, FALSE>>, orc), "seek")

\* C3 amended: in read mode a SEEK_SET to a target inside the buffered range
\* only repositions buf_ptr and invokes no callback, unless the stream has the
\* direct flag and a seek callback: then the seek goes to the transport.
C3_InBufferSeek ==
    ~s.write_flag =>
        \A t \in WindowStart(s)..WindowEnd(s), orc \in ReadScripts1 :
            LET c == DoSeek(s, <<t, SEEK_SET, FALSE>>, orc)
            IN  IF s.direct /\ s.seek
                THEN Names(c.log) = <<"seek">>
                ELSE /\ c.log = <<>>
                     /\ c.ret = t
                     /\ c.buf_ptr = t - WindowStart(s)
                     /\ c.buf_end = s.buf_end /\ c.pos = s.pos
                     /\ c.buffer = s.buffer

\* a seek inside a non-empty buffer was served without a callback
C3_Witness ==
    /\ ~s.write_flag /\ s.op = "avio_seek" /\ s.path = "inbuf"
    /\ s.log = <<>> /\ s.buf_end > 0 /\ s.buf_ptr < s.buf_end

\* the distances C4 speaks of
ShortDistances(c) == 0..(SHORT_SEEK_THRESHOLD + (c.buf_end - c.buf_ptr))

\* the next avio_r8 of c delivers the byte at offset t (or nothing at all when
\* the transport gives nothing or end of file is latched)
NextReadDelivers(c, t) ==
    \A orc \in ReadScripts1 :
        LET d == DoR8(Leave(c), orc)
        IN  /\ d.out \in {<<>>, <<SrcByte(t)>>}
            /\ (orc = <<>> /\ t < SrcLen /\ ~c.eof_reached) => d.out = <<SrcByte(t)>>

\* C4 as stated: on a non-seekable read-mode stream a seek to current + D, D
\* within SHORT_SEEK_THRESHOLD of the buffered data, never invokes the seek
\* callback and reaches the target.
C4_ShortSeekNeverDelegates ==
    (~s.write_flag /\ ~s.seekable) =>
        \A D \in ShortDistances(s), orc \in ReadScripts2 :
            LET c == DoSeek(s, <<D, SEEK_CUR, FALSE>>, orc)
            IN  /\ ~Invoked(c, "seek")
                /\ c.ret = avio_tell(s) + D

\* C4 amended: on a non-seekable read-mode stream without (direct flag and
\* seek callback), such a seek never invokes the seek callback; it returns the
\* target, after which the next read delivers the byte at the target, or it
\* returns AVERROR_EOF because end of file was latched before the call or a
\* read_packet of the skip returned <= 0.  With the direct flag and a seek
\* callback a seek to another offset goes to the transport.
C4_ShortSeek ==
    (~s.write_flag /\ ~s.seekable) =>
        \A D \in ShortDistances(s), orc \in ReadScripts2 :
            LET t == avio_tell(s) + D
                c == DoSeek(s, <<D, SEEK_CUR, FALSE>>, orc)
            IN  IF s.direct /\ s.seek
                THEN D > 0 => Names(c.log) = <<"seek">>
                ELSE /\ ~Invoked(c, "seek")
                     /\ \/ c.ret = t /\ avio_tell(c) = t /\ NextReadDelivers(c, t)
                        \/ c.ret = AVERROR_EOF /\ (s.eof_reached \/ c.eof_n > 0)

\* a non-seekable stream skipped forward by reading and reached its target
C4_Witness ==
    /\ ~s.write_flag /\ ~s.seekable /\ s.op = "avio_seek" /\ s.path = "skip"
    /\ ~s.eof_reached /\ Len(s.log) >= 1
    /\ \A k \in 1..Len(s.log) : s.log[k] = "read_packet"

\* the first callback of c was write_packet with the bytes pending in b, and
\* no seek callback came before it
FlushedFirst(b, c) ==
    b.buf_ptr > 0 =>
        /\ Len(c.log) >= 1
        /\ c.log[1] = Call("write_packet", Slice(b, 0, b.buf_ptr), b.tpos)

\* C5 as stated: in write mode every seek that takes the delegating branch
\* hands all pending bytes to write_packet before the seek callback is called.
C5_FlushBeforeSeekAlways ==
    s.write_flag =>
        \A a \in SeekArgs, orc \in WriteScripts2 :
            LET c == DoSeek(s, a, orc)
            IN  c.path = "delegate" => FlushedFirst(s, c)

\* C5 amended: in write mode every seek that takes the delegating branch
\* empties the buffer before the seek callback is called: with no error latched
\* the pending bytes go to write_packet first; with an error latched they are
\* dropped (pos still advances) and write_packet is not called.
C5_FlushBeforeSeek ==
    s.write_flag =>
        \A a \in SeekArgs, orc \in WriteScripts2 :
            LET c == DoSeek(s, a, orc)
                n == Len(c.log)
            IN  c.path = "delegate" =>
                    /\ s.error = 0 => FlushedFirst(s, c)
                    /\ s.error # 0 => ~Invoked(c, "write_packet")
                    /\ \A k \in 1..n : c.log[k].fn = "seek" => k = n
                    /\ \A k \in 1..n : c.log[k].fn = "write_packet" => k = 1
                    /\ c.must_flush
                    /\ Invoked(c, "seek") <=> s.seek
                    /\ c.ret < 0 => c.pos = s.pos + s.buf_ptr /\ c.buf_ptr = 0

\* a delegated seek found pending bytes and wrote them before it sought
C5_Witness ==
    /\ s.write_flag /\ s.op = "avio_seek" /\ s.path = "delegate"
    /\ s.log = <<"write_packet", "seek">>

\* C6 as stated: a read_packet that returns <= 0 leaves buf_ptr, buf_end and
\* the buffered bytes as they were, whatever the size of the buffer.
C6_EofKeepsBuffer == ~s.eof_moved

(***************************************************************************)
(* Properties of the retry layer                                           *)
(***************************************************************************)
Blocking(r) == r.on /\ r.pc # "idle" /\ ~r.nonblock

\* C7: within one call on a blocking handle, at most 5 consecutive WouldBlock
\* results are retried without sleeping before the first sleep, and right
\* after a transfer that returned a positive byte count the fast-retry budget
\* is at least 2.
C7_RetryFairness ==
    Blocking(rt) =>
        /\ rt.run <= 5
        /\ (rt.run = 5 /\ rt.sleeps = 0) => rt.fast_retries = 0
        /\ rt.last = "progress" => rt.fast_retries >= 2

\* a call that slept after five fast retries and then made progress with the
\* budget spent
C7_Witness ==
    /\ Blocking(rt)
    /\ rt.run = 5 /\ rt.sleeps > 0
    /\ rt.last = "progress" /\ rt.fast_retries = 2

\* C8: on a blocking handle with rw_timeout = T > 0 the deadline is armed on
\* the first slow retry, is never re-armed or reset afterwards (successful
\* transfers included), and a slow retry returns Io exactly when the clock it
\* reads exceeds arm time + T.
C8_Timeout ==
    (Blocking(rt) /\ rt.rw_timeout > 0) =>
        /\ rt.wait_since = rt.first_slow
        /\ rt.slow > 0 => rt.first_slow > 0
        /\ rt.last = "would_block_slow" =>
              ((rt.pc = "done" /\ rt.result = AVERROR_EIO)
                  <=> rt.slow_at > rt.first_slow + rt.rw_timeout)

\* a call that timed out although a transfer succeeded after the deadline was
\* armed
C8_Witness ==
    /\ Blocking(rt) /\ rt.rw_timeout > 0
    /\ rt.last = "would_block_slow" /\ rt.fed
    /\ rt.pc = "done" /\ rt.result = AVERROR_EIO
    /\ rt.slow_at > rt.first_slow + rt.rw_timeout

\* C9: within one call on a blocking handle the interrupt callback is polled
\* between every two consecutive transfer invocations, whatever the first of
\* them returned, and a non-zero poll makes the call return Exit without a
\* further transfer.
C9_PolledBetweenTransfers ==
    (Blocking(rt) /\ rt.k # 0) =>
        /\ rt.unpolled = 0
        /\ rt.cb => (rt.pc = "done" /\ rt.result = AVERROR_EXIT)

\* C10 as stated: the read eventually returns Exit with 0 bytes after exactly
\* k polls, whatever rw_timeout is.
C10_InterruptLivenessAlways ==
    <>(/\ rt.pc = "done" /\ rt.result = AVERROR_EXIT
       /\ rt.len = 0 /\ rt.polls = rt.k)

\* C10: on a readable blocking handle whose transport answers WouldBlock
\* forever and whose interrupt callback answers non-zero from its k-th poll
\* on, ffurl_read with n > 0 eventually returns; when rw_timeout is 0 or
\* k <= 6 it returns Exit with 0 bytes after exactly k polls, and otherwise
\* it returns that or Io from the rw_timeout deadline after at least 6 and
\* fewer than k polls.
C10_InterruptLiveness ==
    /\ <>(/\ rt.pc = "done" /\ rt.len = 0
          /\ \/ rt.result = AVERROR_EXIT /\ rt.polls = rt.k
             \/ /\ rt.result = AVERROR_EIO /\ rt.rw_timeout > 0
                /\ rt.polls >= FAST_RETRIES + 1 /\ rt.polls < rt.k)
    /\ (rt.rw_timeout = 0 \/ rt.k <= FAST_RETRIES + 1) =>
          <>(/\ rt.pc = "done" /\ rt.result = AVERROR_EXIT
             /\ rt.len = 0 /\ rt.polls = rt.k)

\* the read returned Exit at the third poll, after three transfers
C10_Witness ==
    /\ rt.on /\ rt.fn = "ffurl_read" /\ rt.pc = "done"
    /\ rt.result = AVERROR_EXIT /\ rt.len = 0
    /\ rt.k = 3 /\ rt.polls = 3 /\ rt.transfers = 3


(***************************************************************************)
(* Properties of the URL layer                                             *)
(***************************************************************************)

\* C11: the successful ff_network_init calls minus the ff_network_close calls
\* equal the number of live handles of network descriptors, and no call that
\* failed (allocation, option application, connect, adapter construction)
\* changed the count.
C11_NetworkBalance ==
    /\ url.net = Cardinality(LiveNetwork(url))
    /\ ~url.leaked

\* avio_open2 on a network descriptor failed in ffio_fdopen while another
\* network handle stays live
C11_Witness ==
    /\ url.op = "avio_open2" /\ url.ret = AVERROR_ENOMEM
    /\ url.net = 1 /\ Cardinality(LiveNetwork(url)) = 1
    /\ \E h \in 1..MaxHandles :
          /\ url.handles[h].st = "closed"
          /\ Protocols[url.handles[h].prot].network

\* C12: the close hook of a handle is invoked once when its open hook
\* succeeded and the handle was closed, never when open failed or was not
\* attempted, and never twice.
C12_OpenCloseMatching ==
    \A h \in 1..MaxHandles :
        LET uc == url.handles[h]
        IN  /\ uc.closes <= 1
            /\ uc.st # "closed" => uc.closes = 0
            /\ ~uc.opened => uc.closes = 0
            /\ (uc.st = "closed" /\ uc.opened /\ Protocols[uc.prot].url_close)
                   => uc.closes = 1

\* one handle closed after a successful open, one closed by avio_check through
\* the check hook without the close hook
C12_Witness ==
    /\ url.op = "avio_check" /\ url.ret > 0
    /\ \E h \in 1..MaxHandles :
          /\ url.handles[h].st = "closed" /\ url.handles[h].opened
          /\ url.handles[h].closes = 1
    /\ \E h \in 1..MaxHandles :
          /\ url.handles[h].st = "closed" /\ ~url.handles[h].opened
          /\ Protocols[url.handles[h].prot].url_check
          /\ Protocols[url.handles[h].prot].url_close
          /\ url.handles[h].closes = 0

\* the registry positions whose name is the full scheme of f
ExactMatches(registry, f) ==
    {i \in 1..Len(registry) : Protocols[registry[i]].name = proto_str(f)}

\* the positions of nested_scheme descriptors named as the scheme of f cut at
\* its first '+'
NestedMatches(registry, f) ==
    {i \in 1..Len(registry) :
        /\ Protocols[registry[i]].nested
        /\ Protocols[registry[i]].name = proto_nested(f)}

First(S) == CHOOSE i \in S : \A j \in S : i <= j

\* C13: ffurl_alloc selects the first descriptor named as the full scheme when
\* one is registered anywhere; only otherwise the first nested_scheme
\* descriptor named as the scheme cut at its first '+'; with neither it fails
\* with AVERROR_PROTOCOL_NOT_FOUND and a NULL handle.
C13_ExactBeforeNested ==
    \A f \in PlainUrls :
        LET c == ffurl_alloc(EnterUrl(url, "ffurl_alloc"), f, NoFault)
            exact == ExactMatches(url.registry, f)
            nested == NestedMatches(url.registry, f)
        IN  FreeSlots(url) # {} =>
                IF exact # {}
                THEN c.ret = 0 /\ c.handles[c.puc].prot = url.registry[First(exact)]
                ELSE IF nested # {}
                THEN c.ret = 0 /\ c.handles[c.puc].prot = url.registry[First(nested)]
                ELSE c.ret = AVERROR_PROTOCOL_NOT_FOUND /\ c.puc = 0

\* the private data after the pairs are set in order
RECURSIVE SetAll(_, _)
SetAll(priv, pairs) ==
    IF pairs = <<>> THEN priv
    ELSE SetAll([priv EXCEPT ![Head(pairs)[1]] = ParseInt(Head(pairs)[2])], Tail(pairs))

OptionSeps == {",", "="}

OptionPairs ==
    {<<>>,
     <<<<ttl_key, <<"7">>>>>>,
     <<<<ttl_key, <<"7">>>>, <<pkt_size_key, <<"1", "3", "1", "6">>>>>>,
     <<<<pkt_size_key, <<"9">>>>, <<ttl_key, <<"1", "2">>>>>>,
     <<<<ttl_key, <<"7">>>>, <<ttl_key, <<"1", "2">>>>>>}

OptionRests == {HostRest, <<":", "x">>}

\* C14 as stated: allocation for "udp,ttl=7,pkt_size=1316://host:1234" ends
\* with ttl = 7, pkt_size = 1316 and the filename "udp,host:1234".
C14_S5AsStated ==
    LET c == url_alloc_for_protocol(EnterUrl(url, "ffurl_alloc"), "udp", S5Url, NoFault)
    IN  FreeSlots(url) # {} =>
            /\ c.ret = 0
            /\ c.handles[c.puc].priv[ttl_key] = 7
            /\ c.handles[c.puc].priv[pkt_size_key] = 1316
            /\ c.handles[c.puc].filename
                   = udp_name \o <<",">> \o Sub(HostRest, 4, Len(HostRest))

\* C14: for a filename scheme , SEP (key SEP value SEP)* SEP rest, where SEP
\* is the character after the first comma and the keys are options of the
\* descriptor, allocation sets every pair in order and stores scheme followed
\* by rest (the comma and the list are removed); the S5 filename
\* "udp,ttl=7,pkt_size=1316://host:1234" has SEP 't' and an empty list, sets
\* no option and is stored as "udpl=7,pkt_size=1316://host:1234".
C14_EmbeddedOptions ==
    FreeSlots(url) # {} =>
        /\ \A sep \in OptionSeps, pairs \in OptionPairs, rest \in OptionRests :
              LET c == url_alloc_for_protocol(EnterUrl(url, "ffurl_alloc"), "udp",
                                              OptionUrl(udp_name, sep, pairs, rest), NoFault)
              IN  /\ c.ret = 0
                  /\ c.handles[c.puc].priv = SetAll(av_opt_set_defaults("udp"), pairs)
                  /\ c.handles[c.puc].filename = udp_name \o rest
        /\ LET c == url_alloc_for_protocol(EnterUrl(url, "ffurl_alloc"), "udp", S5Url, NoFault)
           IN  /\ c.ret = 0
               /\ c.handles[c.puc].priv = av_opt_set_defaults("udp")
               /\ c.handles[c.puc].filename = udp_name \o Sub(S5Url, 7, Len(S5Url))

\* a live handle allocated from "udp,,ttl,7,pkt_size,1316,,://host:1234"
C14_Witness ==
    \E h \in Live(url) :
        /\ url.op = "ffurl_alloc" /\ url.ret = 0
        /\ url.handles[h].prot = "udp"
        /\ url.handles[h].filename = udp_name \o HostRest
        /\ url.handles[h].priv[ttl_key] = 7
        /\ url.handles[h].priv[pkt_size_key] = 1316

(***************************************************************************)
(* Properties of dynamic buffers                                           *)
(***************************************************************************)
Continuous(d) == d.on /\ d.max_packet_size = 0

Packetised(d) == d.on /\ d.max_packet_size # 0

Header(n) == <<0, 0, 0, n>>

\* header and payload of every chunk, in order
RECURSIVE Frames(_)
Frames(chunks) ==
    IF chunks = <<>> THEN <<>>
    ELSE Header(Len(Head(chunks))) \o Head(chunks) \o Frames(Tail(chunks))

RECURSIVE Flatten(_)
Flatten(chunks) ==
    IF chunks = <<>> THEN <<>> ELSE Head(chunks) \o Flatten(Tail(chunks))

\* the bytes of a closed packetised buffer opened with max_packet_size m after
\* the payloads are written with avio_write, each followed by avio_flush when
\* flush is set
RECURSIVE PacketWrites(_, _, _)
PacketWrites(c, payloads, flush) ==
    IF payloads = <<>> THEN c
    ELSE LET c1 == avio_write(c, Head(payloads))
         IN  PacketWrites(IF flush THEN avio_flush(c1) ELSE c1, Tail(payloads), flush)

PacketRun(m, payloads, flush) ==
    LET open == ffio_open_dyn_packet_buf(m)
        c == PacketWrites(Enter(open[1], "avio_write", <<>>), payloads, flush)
        d == avio_close_dyn_buf(Leave(c), Sink(open[2], c.log))
    IN  SubSeq(d.buffer, 1, d.ret)

\* [AA,BB,CC] and [DD]
S3Payloads == <<<<170, 187, 204>>, <<221>>>>

C18_CloseReturnsPayload ==
    (Continuous(dyn) /\ dyn.closed) =>
        /\ \A i \in dyn.wrote : i < dyn.ret
        /\ dyn.wrote # {} => dyn.ret - 1 \in dyn.wrote
        /\ \A i \in dyn.wrote : dyn.buffer[i + 1] = OutByte(i)
        /\ \A j \in 1..FF_INPUT_BUFFER_PADDING_SIZE : dyn.buffer[dyn.ret + j] = 0

(***************************************************************************)
(* Properties of typed I/O                                                 *)
(***************************************************************************)
\* the bytes a value of a kind takes
Width(kind, val) == IF kind = "v" THEN ff_get_v_length(val) ELSE KindBits(kind) \div 8

\* C17: a value written with avio_wlX, avio_wbX (X in 16, 24, 32, 64) or
\* ff_put_v and read back with the matching avio_rlX, avio_rbX or
\* ffio_read_varlen is returned unchanged, and the read consumes X/8 bytes,
\* ff_get_v_length(v) for the variable-length form, wherever the flushes of
\* the writer and the refills of the reader fall.
C17_RoundTrip ==
    \A k \in 1..Len(dyn.got) :
        /\ dyn.got[k][1] = dyn.vals[k][2]
        /\ dyn.got[k][2] = Width(dyn.vals[k][1], dyn.vals[k][2])

\* the ten bytes of ff_put_v(2^64 - 1) and a 24-bit big-endian value were read
\* back through a two-byte buffer
C17_Witness ==
    /\ Len(dyn.got) = 2
    /\ dyn.vals[1] = <<"v", AllOnes>>
    /\ dyn.vals[2] = <<"b24", Trunc(Pattern, 24)>>
    /\ dyn.got[1][2] = 10
    /\ s.read_packet /\ s.buffer_size = IO_BUFFER_SIZE

(***************************************************************************)
(* Properties of the error and end-of-file flags                           *)
(***************************************************************************)
\* what the callbacks of one more operation may return once an error is
\* latched: another error, at once or after a success
LaterScripts == {<<AVERROR_EINTR>>, <<MaxChunk, AVERROR_EINTR>>}

\* the stream after one more operation
AfterError(c) ==
    IF c.write_flag
    THEN {DoW8(c, orc) : orc \in LaterScripts}
         \cup {DoWrite(c, n, orc) : n \in Sizes, orc \in LaterScripts}
         \cup {DoFlush(c, orc) : orc \in LaterScripts}
         \cup {DoSeek(c, a, orc) : a \in SeekArgs, orc \in LaterScripts}
    ELSE {DoR8(c, orc) : orc \in LaterScripts}
         \cup {DoRead(c, n, orc) : n \in Sizes, orc \in LaterScripts}
         \cup {DoReadPartial(c, n, orc) : n \in Sizes, orc \in LaterScripts}
         \cup {DoSeek(c, a, orc) : a \in SeekArgs, orc \in LaterScripts}

\* C19: error holds the first negative value write_packet or read_packet
\* returned: no later operation changes it, whatever its callbacks return,
\* and in write mode no later operation calls write_packet.
C19_FirstErrorLatched ==
    s.error # 0 =>
        \A c \in AfterError(s) :
            /\ c.error = s.error
            /\ s.write_flag => ~Invoked(c, "write_packet")

\* C20 as stated: every avio_seek that returns a non-negative offset, the
\* SEEK_CUR call with offset 0 included, leaves eof_reached clear and returns
\* the offset avio_seek(s, 0, SEEK_CUR) reports afterwards.
C20_SeekAlwaysClearsEof ==
    \A a \in SeekArgs, orc \in SeekScripts(s) :
        LET c == DoSeek(s, a, orc)
        IN  c.ret >= 0 => (~c.eof_reached /\ avio_tell(c) = c.ret)

\* C20: every avio_seek that returns a non-negative offset returns the offset
\* avio_seek(s, 0, SEEK_CUR) reports afterwards; the in-buffer, skipping and
\* delegated paths leave eof_reached clear, while SEEK_CUR with offset 0
\* returns the current offset at once and leaves eof_reached as it was.
C20_SeekClearsEof ==
    \A a \in SeekArgs, orc \in SeekScripts(s) :
        LET c == DoSeek(s, a, orc)
        IN  c.ret >= 0 =>
                /\ avio_tell(c) = c.ret
                /\ IF a[2] = SEEK_CUR /\ a[1] = 0
                   THEN c.eof_reached = s.eof_reached /\ c.ret = avio_tell(s)
                   ELSE ~c.eof_reached

\* a delegated seek succeeded on a stream whose read_packet had failed
C20_Witness ==
    /\ ~s.write_flag /\ s.op = "avio_seek" /\ s.path = "delegate"
    /\ s.error # 0 /\ ~s.eof_reached

(***************************************************************************)
(* Properties of must_flush                                                *)
(***************************************************************************)
\* the seeks that are neither a position query nor refused for their whence
MovingSeeks ==
    {a \in SeekArgs : a[2] \in {SEEK_SET, SEEK_CUR} /\ ~(a[2] = SEEK_CUR /\ a[1] = 0)}

\* C21 as stated: must_flush is set exactly when a write followed a delegated
\* seek and no flush happened since, and while it is set every avio_seek keeps
\* off the in-buffer path and hands the pending bytes to write_packet first.
C21_MustFlushAsStated ==
    /\ s.must_flush <=> s.hist = "wrote"
    /\ s.must_flush =>
           \A a \in SeekArgs, orc \in WriteScripts2 :
               LET c == DoSeek(s, a, orc)
               IN  c.path # "inbuf" /\ FlushedFirst(s, c)

\* C21: must_flush is set exactly on a write-mode stream on which an avio_seek
\* took the delegated path (whatever the transport seek returned, and whether
\* or not a write followed) and avio_flush was not called since, by the caller
\* or by avio_write on a direct stream; a flush of a full buffer does not
\* clear it.  While it is set every avio_seek that moves
\* the position takes the delegated path again: the buffer is emptied first
\* (the pending bytes go to write_packet when no error is latched) and
\* must_flush stays set.
C21_MustFlush ==
    /\ s.must_flush <=> (s.write_flag /\ s.hist # "")
    /\ s.must_flush =>
           \A a \in MovingSeeks, orc \in WriteScripts2 :
               LET c == DoSeek(s, a, orc)
               IN  /\ c.path = "delegate"
                   /\ s.error = 0 => FlushedFirst(s, c)
                   /\ \A k \in 1..Len(c.log) : c.log[k].fn = "seek" => k = Len(c.log)
                   /\ c.must_flush

\* bytes written after a delegated seek are pending and must_flush is set
C21_Witness ==
    /\ s.write_flag /\ s.must_flush /\ s.hist = "wrote"
    /\ s.buf_ptr > 0 /\ s.error = 0 /\ s.seek

(***************************************************************************)
(* Properties of the buffer pointers                                       *)
(***************************************************************************)
\* buffer <= buf_ptr <= buf_end, and buf_end against buffer + buffer_size
PtrOrder(c) ==
    /\ 0 <= c.buf_ptr /\ c.buf_ptr <= c.buf_end
    /\ IF c.write_flag THEN c.buf_end = c.buffer_size ELSE c.buf_end <= c.buffer_size

\* in read mode pos is the absolute offset of buf_end: the bytes before
\* buf_end are those of the object that end at offset pos, and the transport
\* delivers the byte at offset pos next
PosAtEnd(c) ==
    ~c.write_flag =>
        /\ c.pos - c.buf_end >= 0
        /\ \A k \in 0..(c.buf_end - 1) :
               c.pos - c.buf_end + k < SrcLen
                   => Mem(c, k) = SrcByte(c.pos - c.buf_end + k)
        /\ c.read_packet => c.tpos = c.pos

\* the buffer sizes a caller gives ffio_set_buf_size
NewSizes == {1, IO_BUFFER_SIZE + 2}

\* the stream after url_feof or ffio_set_buf_size
AfterHousekeeping(c) ==
    {url_feof(Enter(c, "url_feof", orc)) :
         orc \in IF c.write_flag THEN {<<>>} ELSE ReadScripts1}
    \cup {ffio_set_buf_size(Enter(c, "ffio_set_buf_size", <<>>), n) : n \in NewSizes}

\* C22: after every public operation the pointers are ordered; in write mode
\* buf_end is buffer + buffer_size, in read mode it is at most that and pos is
\* the absolute offset of buf_end.
\* the stream after ffio_rewind_with_probe_data with the first n bytes of the
\* object, whether or not the caller read them through this stream
AfterRewind(c) == {DoRewind(c, n) : n \in IF c.read_packet THEN 1..SrcLen ELSE {}}

\* the part of C22 that holds: every operation but a rewind whose probe is
\* longer than what the stream has read
PointersKept ==
    /\ PtrOrder(s) /\ PosAtEnd(s)
    /\ \A c \in AfterHousekeeping(s) : PtrOrder(c) /\ PosAtEnd(c)
    /\ \A n \in 1..SrcLen :
          n <= s.pos => PtrOrder(DoRewind(s, n)) /\ PosAtEnd(DoRewind(s, n))

ReadCalls(c) == Cardinality({k \in 1..Len(c.log) : c.log[k].fn = "read_packet"})

PartialSizes == Sizes \ {0}

\* what ffio_read_partial returned is one of the outcomes the claim allows
SurfacesOnly(c) ==
    \/ c.ret > 0
    \/ c.ret < 0 /\ c.ret = c.error
    \/ c.ret = AVERROR_EOF /\ c.eof_reached

\* C23 as stated: ffio_read_partial with size > 0 calls read_packet at most
\* once and returns a positive count, the latched error or EOF, never 0.
C23_ReadPartialAsStated ==
    \A n \in PartialSizes : \A orc \in ReadScripts2 :
        LET c == DoReadPartial(s, n, orc)
        IN  ReadCalls(c) <= 1 /\ SurfacesOnly(c)

\* C23: ffio_read_partial with size > 0 returns buffered bytes without any
\* callback; on an empty buffer it calls fill_buffer once, and once more
\* through url_feof when nothing came of the first call and no error is
\* latched.  It returns the count of the bytes it delivered, the latched error
\* or EOF, and 0 only when the refill of url_feof found data.
C23_ReadPartial ==
    \A n \in PartialSizes : \A orc \in ReadScripts2 :
        LET c == DoReadPartial(s, n, orc)
            avail == s.buf_end - s.buf_ptr
        IN  /\ ReadCalls(c) <= 2
            /\ avail > 0 => /\ ReadCalls(c) = 0
                            /\ c.ret = Min(n, avail)
                            /\ c.out = Slice(s, s.buf_ptr, s.buf_ptr + c.ret)
                            /\ c.buf_ptr = s.buf_ptr + c.ret
            /\ ReadCalls(c) = 2 =>
                   /\ avail = 0 /\ ~s.eof_reached /\ s.error = 0
                   \* the first call delivered nothing
                   /\ c.log[2].off = c.log[1].off
            /\ c.ret >= 0 => c.ret = Len(c.out) /\ c.ret <= n
            /\ c.ret = 0 =>
                   /\ avail = 0 /\ c.error = 0 /\ ~c.eof_reached
                   /\ c.buf_ptr < c.buf_end
                   /\ c.log # <<>> /\ c.log[Len(c.log)].fn = "read_packet"
            /\ c.ret < 0 => \/ c.ret = c.error
                            \* the error of the refill in url_feof is
                            \* latched and reported as EOF
                            \/ c.ret = AVERROR_EOF /\ c.eof_reached
                                  /\ (c.error # 0 => ReadCalls(c) > 0)

\* a call on an empty buffer whose first read_packet reported the end and
\* whose second, made by url_feof, delivered data: 0 is returned
C23_Witness ==
    /\ s.op = "ffio_read_partial" /\ s.read_packet
    /\ s.log = <<"read_packet", "read_packet">>
    /\ ~s.eof_reached /\ s.error = 0 /\ s.buf_ptr < s.buf_end

(***************************************************************************)
(* Properties of avio_close                                                *)
(***************************************************************************)
\* the positions in a log of the calls to fn
CallsTo(log, fn) == {k \in 1..Len(log) : log[k].fn = fn}

\* whether ffurl_closep invokes the close hook of handle 1
WillCallClose ==
    url.handles[1].is_connected /\ Protocols[url.handles[1].prot].url_close

\* the close hook is the last call of avio_close, which returns what the hook
\* returned (0 without a hook) and leaves the handle closed
ClosedLast(c, u) ==
    /\ CallsTo(c.log, "url_close") = (IF WillCallClose THEN {Len(c.log)} ELSE {})
    /\ CallsTo(c.log, "write_packet") \subseteq {1}
    /\ Len(c.log) <= 2
    /\ c.ret = (IF WillCallClose THEN Protocols[url.handles[1].prot].close_ret ELSE 0)
    /\ u.handles[1].st = "closed" /\ u.ret = c.ret

\* the bytes of [buffer, buf_ptr) went to ffurl_write in the first call
PendingHanded(c) ==
    /\ c.log # <<>>
    /\ c.log[1].fn = "write_packet"
    /\ c.log[1].data = Slice(s, 0, s.buf_ptr)

\* C24 as stated: avio_close hands every pending byte to the handle's write
\* before the close hook, calls nothing after it and returns its status.
C24_CloseOrderingAsStated ==
    StreamOpen =>
        \A orc \in WriteScripts1 :
            LET c == DoClose(s, url, orc)[1]
                u == DoClose(s, url, orc)[2]
            IN  /\ s.buf_ptr > 0 => PendingHanded(c)
                /\ ClosedLast(c, u)

\* C24: avio_close hands the pending bytes to the handle's write before the
\* close hook unless an error is latched (then they are dropped and nothing
\* is written); the close hook is the last call and its status is returned.
C24_CloseOrdering ==
    StreamOpen =>
        \A orc \in WriteScripts1 :
            LET c == DoClose(s, url, orc)[1]
                u == DoClose(s, url, orc)[2]
            IN  /\ (s.buf_ptr > 0 /\ s.error = 0) => PendingHanded(c)
                /\ (s.buf_ptr = 0 \/ s.error # 0) => CallsTo(c.log, "write_packet") = {}
                /\ ClosedLast(c, u)

\* a stream closed with bytes pending: ffurl_write, then the close hook
C24_Witness ==
    /\ s.op = "avio_close" /\ url.op = "avio_close"
    /\ s.log = <<"write_packet", "url_close">>
    /\ url.handles[1].st = "closed" /\ url.handles[1].closes = 1
    /\ s.handed = s.written /\ s.written > 0

(***************************************************************************)
(* Properties of ffurl_connect                                             *)
(***************************************************************************)
\* the handles ffurl_connect may be called on
Unconnected == {h \in Live(url) : ~url.handles[h].is_connected}

\* url_open2 is called when the descriptor has it, url_open otherwise; the
\* handle is connected exactly when the hook returned 0, whose result is
\* returned
HookPreferred(c, h, e) ==
    LET up == Protocols[url.handles[h].prot]
    IN  (up.url_open2 \/ up.url_open) =>
            /\ c.handles[h].via = (IF up.url_open2 THEN "url_open2" ELSE "url_open")
            /\ c.ret = e.open_ret
            /\ c.handles[h].is_connected = (e.open_ret = 0)
            /\ c.op = "ffurl_connect"

\* with neither hook: Unsupported, not connected, no hook called
NoHookUnsupported(c, h) ==
    LET up == Protocols[url.handles[h].prot]
    IN  (~up.url_open2 /\ ~up.url_open) =>
            /\ c.op = "ffurl_connect"
            /\ c.ret = AVERROR_ENOSYS
            /\ ~c.handles[h].is_connected
            /\ c.handles[h].via = ""

\* C25: ffurl_connect prefers url_open2 and calls url_open otherwise; with
\* neither hook it fails with Unsupported, is_connected stays false and no
\* transport hook is invoked.
C25_ConnectHooks ==
    Running =>
        \A h \in Unconnected : \A e \in ConnectEnvs :
            LET c == ffurl_connect(EnterUrl(url, "ffurl_connect"), h, e)
            IN  HookPreferred(c, h, e) /\ NoHookUnsupported(c, h)

\* the part of C25 that holds: the choice between the two hooks
HooksInOrder ==
    Running =>
        \A h \in Unconnected : \A e \in ConnectEnvs :
            HookPreferred(ffurl_connect(EnterUrl(url, "ffurl_connect"), h, e), h, e)

(***************************************************************************)
(* Properties of the embedded option list                                  *)
(***************************************************************************)
\* "udp,,z,1,ttl,7,,://host:1234": an unknown key, then a known one
UnknownKeyUrl ==
    OptionUrl(udp_name, ",", <<<<<<"z">>, <<"1">>>>, <<ttl_key, <<"7">>>>>>, HostRest)

\* "udp,,ttl,7": a key whose value has no end
MalformedUrl == udp_name \o <<",", ",">> \o ttl_key \o <<",", "7">>

\* ffurl_alloc can be called and finds the descriptor with the option schema
UdpRegistered ==
    /\ FreeSlots(url) # {}
    /\ \E i \in 1..Len(url.registry) : url.registry[i] = "udp"

AllocOf(f) == ffurl_alloc(EnterUrl(url, "ffurl_alloc"), f, NoFault)

\* allocation failed with Invalid and left no handle and no network reference
AllocInvalid(c) ==
    /\ c.ret = AVERROR_EINVAL /\ c.puc = 0
    /\ c.handles = url.handles /\ c.net = url.net

\* C26 as stated: an unknown key does not abort allocation: the other pairs
\* are applied and a handle is returned; only a malformed pair fails.
C26_UnknownKeyTolerated ==
    UdpRegistered =>
        /\ AllocOf(UnknownKeyUrl).ret = 0
        /\ AllocOf(UnknownKeyUrl).puc # 0
        /\ AllocOf(UnknownKeyUrl).handles[NewSlot(url)].priv[ttl_key] = 7
        /\ AllocInvalid(AllocOf(MalformedUrl))

\* C26: an unknown key in the embedded option list aborts allocation like a
\* malformed pair does: Invalid is returned, no handle is left and the pairs
\* after the unknown key are not applied; a list of known keys is applied.
C26_UnknownKeyAborts ==
    UdpRegistered =>
        /\ AllocInvalid(AllocOf(UnknownKeyUrl))
        /\ AllocInvalid(AllocOf(MalformedUrl))
        /\ AllocOf(S5SepUrl).ret = 0
        /\ AllocOf(S5SepUrl).handles[NewSlot(url)].priv[ttl_key] = 7

\* an allocation that ended with Invalid while another handle is live
C26_Witness ==
    /\ url.op = "ffurl_alloc" /\ url.ret = AVERROR_EINVAL
    /\ UdpRegistered /\ Live(url) # {}

(***************************************************************************)
(* Properties of ffio_rewind_with_probe_data                               *)
(***************************************************************************)
\* the whole object, as a caller reads it from offset 0
Original == Probe(SrcLen)

\* what avio_read delivers after the rewind when asked for the whole object
\* and the transport delivers in full
ReadBack(c) == DoRead(c, SrcLen, <<>>).out

\* the rewind succeeded: position 0, end-of-file cleared, and the reads that
\* follow deliver the object from offset 0
Rewound(c) ==
    /\ c.ret = 0
    /\ avio_tell(c) = 0
    /\ ~c.eof_reached
    /\ ReadBack(c) = Original

\* the rewind was refused: Invalid, and the window is as it was
Refused(c) == c.ret = AVERROR_EINVAL /\ Window(c) = Window(s) /\ c.pos = s.pos

RewindOfConsumed ==
    s.read_packet =>
        \A n \in 1..SrcLen :
            n <= s.pos =>
                IF s.pos - s.buf_end <= n
                THEN Rewound(DoRewind(s, n))
                ELSE Refused(DoRewind(s, n))

(***************************************************************************)
(* Properties of the checksum window                                       *)
(***************************************************************************)
\* the update function folded from the seed over the bytes the caller read
\* or wrote in the window
Folded == <<SEED>> \o s.summed

\* C28: ffio_get_checksum returns the update function folded from the seed
\* over exactly the bytes read or written since ffio_init_checksum, however
\* many refills or flushes happened in between, and disarms the hook.
C28_ChecksumWindow ==
    /\ s.update_checksum =>
           /\ ffio_get_checksum(s).checksum = Folded
           /\ ~ffio_get_checksum(s).update_checksum
    /\ s.op = "ffio_get_checksum" => s.checksum = Folded /\ ~s.update_checksum

\* a window over a read that refilled the buffer from its start
C28_Witness ==
    /\ s.op = "ffio_get_checksum" /\ ~s.write_flag
    /\ Len(s.summed) > s.buffer_size
    /\ s.checksum = Folded

\* a window over writes that flushed the buffer
C28_WitnessWrite ==
    /\ s.op = "ffio_get_checksum" /\ s.write_flag
    /\ Len(s.summed) > s.buffer_size
    /\ s.checksum = Folded

\* the part of C28 that holds: the windows of a write-mode stream
WindowFolded ==
    (s.update_checksum /\ s.write_flag) => ffio_get_checksum(s).checksum = Folded

(***************************************************************************)
(* Properties of avio_seek with an invalid whence                          *)
(***************************************************************************)
AVSEEK_SIZE == 65536

AVSEEK_FORCE == 131072

\* force = whence & AVSEEK_FORCE
ForceOf(whence) == (whence \div AVSEEK_FORCE) % 2 = 1

\* whence &= ~AVSEEK_FORCE
Stripped(whence) == IF ForceOf(whence) THEN whence - AVSEEK_FORCE ELSE whence

\* avio_seek as the caller passes whence
SeekRaw(c, offset, whence, orc) ==
    avio_seek(Enter(c, "avio_seek", orc), offset, Stripped(whence), ForceOf(whence))

\* whence values that are neither SEEK_SET nor SEEK_CUR once FORCE is stripped
InvalidWhences ==
    {w + f : w \in {SEEK_END, SEEK_END + 1, AVSEEK_SIZE}, f \in {0, AVSEEK_FORCE}}

OffsetsTried == {-1, 0, 1, SHORT_SEEK_THRESHOLD + 1, MaxOff}

\* C29: avio_seek with a whence that, FORCE stripped, is neither SEEK_SET nor
\* SEEK_CUR returns Invalid, calls no callback and leaves buf_ptr, buf_end,
\* pos, eof_reached and must_flush as they were.
C29_InvalidWhence ==
    \A w \in InvalidWhences, off \in OffsetsTried, orc \in SeekScripts(s) :
        LET c == SeekRaw(s, off, w, orc)
        IN  /\ c.ret = AVERROR_EINVAL
            /\ c.log = <<>> /\ c.orc = orc
            /\ c.buf_ptr = s.buf_ptr /\ c.buf_end = s.buf_end /\ c.pos = s.pos
            /\ c.eof_reached = s.eof_reached /\ c.must_flush = s.must_flush
            /\ c.buffer = s.buffer /\ c.tpos = s.tpos

\* a stream at end of file on which a seek returned before it chose a path,
\* as the seek with SEEK_END does: end of file is still latched
C29_Witness ==
    /\ s.op = "avio_seek" /\ s.path = "" /\ s.log = <<>>
    /\ s.eof_reached /\ s.error # 0
    /\ SeekRaw(s, 0, SEEK_END + AVSEEK_FORCE, <<>>).ret = AVERROR_EINVAL
    /\ SeekRaw(s, 0, SEEK_END + AVSEEK_FORCE, <<>>).eof_reached

(***************************************************************************)
(* Properties of the stores of the write path                              *)
(***************************************************************************)
\* C30: every byte avio_w8 and avio_write store lands inside
\* [buffer, buffer + buffer_size), and buf_ptr < buf_end whenever avio_w8 is
\* entered, also right after an in-buffer seek to the end of the buffer.
C30_WriteBounds ==
    /\ ~s.oob
    /\ s.buf_ptr < s.buf_end
    /\ \A orc \in WriteScripts1 : ~DoW8(s, orc).oob
    /\ \A n \in Sizes, orc \in WriteScripts2 : ~DoWrite(s, n, orc).oob

\* the part of C30 that holds: the stores of avio_write, and those of avio_w8
\* on a stream that was never sought
StoresOfWrite ==
    /\ \A n \in Sizes, orc \in WriteScripts2 : s.oob \/ ~DoWrite(s, n, orc).oob
    /\ s.nseek = 0 => ~s.oob /\ s.buf_ptr < s.buf_end

(***************************************************************************)
(* What reaches write_packet of the bytes a caller wrote                   *)
(***************************************************************************)
\* the bytes the write_packet calls of a log carried for absolute offset o
HandedAt(log, o) ==
    {log[k].data[o - log[k].off + 1] :
        k \in {j \in 1..Len(log) : /\ log[j].fn = "write_packet"
                                   /\ o >= log[j].off
                                   /\ o < log[j].off + Len(log[j].data)}}

\* avio_write of n bytes, avio_seek(a), avio_flush, with a transport that
\* accepts everything: where the bytes were written, the branch the seek took
\* and every write_packet call of the three operations
WriteSeekFlush(c, n, a) ==
    LET flushed(w, k, f) ==
            [from |-> avio_tell(c), to |-> k.ret, path |-> k.path,
             error |-> f.error, oob |-> f.oob,
             log |-> w.log \o k.log \o f.log]
        sought(w, k) == flushed(w, k, DoFlush(Leave(k), <<>>))
        wrote(w) == sought(w, DoSeek(Leave(w), a, <<>>))
    IN  wrote(DoWrite(c, n, <<>>))

\* avio_write of n bytes, then avio_flush
WriteFlush(c, n) ==
    LET flushed(w, f) == [from |-> avio_tell(c), error |-> f.error, oob |-> f.oob,
                          log |-> w.log \o f.log]
        wrote(w) == flushed(w, DoFlush(Leave(w), <<>>))
    IN  wrote(DoWrite(c, n, <<>>))

\* every byte written at the offsets from .. from + n - 1 was handed over
AllHanded(r, n) ==
    \A o \in r.from..(r.from + n - 1) : OutByte(o) \in HandedAt(r.log, o)

\* C31: on a write-mode stream without a write error, the bytes of an
\* avio_write are all handed to write_packet, at the offsets where they were
\* written, by the next avio_flush, also when an in-buffer avio_seek (a
\* backward one included) moved the cursor in between.
C31_NoWriteLoss ==
    \A n \in Sizes \ {0}, a \in SeekArgs :
        LET r == WriteSeekFlush(s, n, a)
        IN  (s.error = 0 /\ ~r.oob /\ r.error = 0 /\ r.path = "inbuf")
                => AllHanded(r, n)

\* the part of C31 that holds: without a seek in between, and with an
\* in-buffer seek to a target at or beyond the end of the bytes written, the
\* next avio_flush hands every byte over; after a backward in-buffer seek it
\* hands over the bytes below the target
WritesKeptUnlessSoughtBack ==
    /\ \A n \in Sizes \ {0} :
          LET r == WriteFlush(s, n)
          IN  (s.error = 0 /\ ~r.oob /\ r.error = 0) => AllHanded(r, n)
    /\ \A n \in Sizes \ {0}, a \in SeekArgs :
          LET r == WriteSeekFlush(s, n, a)
          IN  (s.error = 0 /\ ~r.oob /\ r.error = 0 /\ r.path = "inbuf")
                  => AllHanded(r, Min(n, Max(0, r.to - r.from)))

\* a backward in-buffer seek after a write is possible
SoughtBackInBuffer ==
    \E n \in Sizes \ {0}, a \in SeekArgs :
        LET r == WriteSeekFlush(s, n, a)
        IN  /\ s.error = 0 /\ ~r.oob /\ r.error = 0 /\ r.path = "inbuf"
            /\ r.to < r.from + n
            /\ s.buf_ptr > 0

(***************************************************************************)
(* What a read of the retry layer reports of the bytes it transferred      *)
(***************************************************************************)
\* a call of ffurl_read or ffurl_read_complete that has returned
ReadReturned ==
    rt.on /\ rt.pc = "done" /\ rt.fn \in {"ffurl_read", "ffurl_read_complete"}

\* the bytes the transfer callback stored into the caller's buffer during the
\* call: len, and on a non-blocking handle, which returns before len is
\* advanced, the count the one transfer returned
Stored(r) == IF r.last = "nonblock" THEN Max(r.ret, 0) ELSE r.len

\* C32: a call of ffurl_read or ffurl_read_complete during which the transport
\* stored k > 0 bytes into the caller's buffer returns a count >= k; it
\* returns a negative value (Exit, Io or a transport error) only if no byte
\* was transferred in that call.
C32_NoReadLoss ==
    (ReadReturned /\ Stored(rt) > 0) => rt.result >= Stored(rt)

\* the part of C32 that holds: a non-negative return value is the number of
\* bytes stored; bytes are stored and a negative value returned only when
\* fewer than size bytes arrived and then the interrupt poll answered non-zero
\* (Exit) or, in ffurl_read_complete, a later transfer failed or the deadline
\* passed (Io)
ReadLossOnlyOnFailure ==
    ReadReturned =>
        /\ rt.result >= 0 => rt.result = Stored(rt)
        /\ (rt.result < 0 /\ Stored(rt) > 0) =>
              /\ ~rt.nonblock
              /\ rt.len < rt.size
              /\ \/ rt.result = AVERROR_EXIT /\ rt.cb
                 \/ /\ rt.fn = "ffurl_read_complete"
                    /\ \/ rt.last = "error" /\ rt.result = rt.ret
                       \/ rt.last = "would_block_slow" /\ rt.result = AVERROR_EIO

\* ffurl_read_complete loses bytes to the deadline
ReadLossByDeadline ==
    /\ ReadReturned /\ rt.fn = "ffurl_read_complete"
    /\ rt.len > 0 /\ rt.result = AVERROR_EIO /\ rt.last = "would_block_slow"

\* ffurl_read loses bytes to the interrupt poll
ReadLossByInterrupt ==
    /\ ReadReturned /\ rt.fn = "ffurl_read"
    /\ rt.len > 0 /\ rt.result = AVERROR_EXIT

====
